---- MODULE Spec2Model ----
(***************************************************************************)
(* Model of the matrix types of lgbm (src/lgbm/src/mat.rs): the owning     *)
(* buffer MatBuf<T, L>, the borrowed view Mat<'a, T, L>, their             *)
(* constructors, the bounds-checked accessors and the layout rule.         *)
(*                                                                         *)
(* Offsets are 0-based as in the source; a Vec / slice is a TLA+ sequence, *)
(* so the element at offset k is values[k + 1].  An Option is a sequence   *)
(* of length at most one.  The element type T is generic in the source:    *)
(* the model's elements are small naturals, 0 standing for T::default().   *)
(***************************************************************************)
EXTENDS Integers, Sequences, FiniteSets, TLC

VARIABLES
    m,        \* Option<MatBuf>: the owning buffer under test
    view,     \* Option<Mat>: a view borrowed from m, or built by from_slice
    vptr,     \* where view's slice starts: its offset in the buffer it borrows
    res,      \* the call that ran last: its name, arguments and outcome
    written,  \* whether the run has made its store through a mutable accessor,
              \* panicked or not
    booster,  \* Option<Booster>: the booster under test, its handle and data
    arcs,     \* per dataset handle, the Arc<Dataset> clones held outside booster
    native,   \* the engine's side: what it keeps per dataset handle, and the
              \* handles it was asked to free, in the order of the calls
    prediction \* Option<Prediction>: the prediction under test

\* the wrapper's objects and the engine's state behind the handles
ffi == <<booster, arcs, native, prediction>>

\* what the calls on datasets and boosters leave alone
others == <<m, view, vptr, written, prediction>>

vars == <<m, view, vptr, res, written, booster, arcs, native, prediction>>

\* ------------------------------------------------------------------ bounds
MaxRow == 2
MaxCol == 3
MaxVal == 1

\* one element more than the largest shape holds, so that a flat buffer can
\* be too short and too long for any shape
MaxLen == MaxRow * MaxCol + 1

Rows == 0 .. MaxRow
Cols == 0 .. MaxCol
Elem == 0 .. MaxVal

\* the row constructors are also given one row more than MaxRow, and the
\* row accessors one index beyond that matrix's last row
InRows == 0 .. MaxRow + 1
RowArgs == 0 .. MaxRow + 1

\* ------------------------------------------------------------------ Option
None == << >>
Some(x) == << x >>
IsSome(o) == Len(o) = 1
Unwrap(o) == o[1]

\* --------------------------------------------------------------- layouts
\* A layout value L is one of the unit structs RowMajor, ColMajor (the
\* layout is fixed by the type) or a value of the enum MatLayouts.
RowMajor == [type |-> "RowMajor", variant |-> "RowMajor"]
ColMajor == [type |-> "ColMajor", variant |-> "ColMajor"]
MatLayouts == { [type |-> "MatLayouts", variant |-> v] : v \in {"RowMajor", "ColMajor"} }
Layouts == {RowMajor, ColMajor} \cup MatLayouts

\* MatLayout::layout of the three implementations
layout(L) ==
    CASE L.type = "MatLayouts" -> L.variant
      [] L.type = "RowMajor"   -> "RowMajor"
      [] L.type = "ColMajor"   -> "ColMajor"

\* Default::default() of a layout type: the unit structs have one value,
\* MatLayouts has #[default] ColMajor
DefaultLayout(type) ==
    CASE type = "MatLayouts" -> [type |-> "MatLayouts", variant |-> "ColMajor"]
      [] type = "RowMajor"   -> RowMajor
      [] type = "ColMajor"   -> ColMajor

\* to_index with the two layouts' formulas exchanged
to_index_swapped(L, row, col, nrow, ncol) ==
    CASE layout(L) = "RowMajor" -> col * nrow + row
      [] layout(L) = "ColMajor" -> row * ncol + col

\* to_index without the stride
to_index_no_stride(L, row, col, nrow, ncol) ==
    CASE layout(L) = "RowMajor" -> row + col
      [] layout(L) = "ColMajor" -> col + row

\* MatLayout::to_index
to_index(L, row, col, nrow, ncol) ==
    CASE layout(L) = "RowMajor" -> row * ncol + col
      [] layout(L) = "ColMajor" -> col * nrow + row

\* ------------------------------------------------------- slices and panics
\* An operation's outcome: Ok(value), a panic, or Err (a Result's error).
Ok(x) == [kind |-> "ok", out |-> x]
Panic == [kind |-> "panic", out |-> << >>]
Err == [kind |-> "err", out |-> << >>]

\* values[k]: the slice's own bounds check
SliceAt(values, k) ==
    IF k < Len(values) THEN Ok(values[k + 1]) ELSE Panic

\* values[start..][..n]: both range checks of the slice
SliceFromTo(values, start, n) ==
    IF start > Len(values) THEN Panic
    ELSE IF n > Len(values) - start THEN Panic
    ELSE Ok([start |-> start, vals |-> SubSeq(values, start + 1, start + n)])

\* assert_index with the comparison off by one
assert_index_le(index, len) == index <= len

\* assert_index: TRUE when the assertion passes
assert_index(index, len) == index < len

assert_row(row, nrow) == assert_index(row, nrow)

assert_col(col, ncol) == assert_index(col, ncol)

\* ----------------------------------------------------------------- inputs
\* <<s+1, ..., s+n>>: n pairwise distinct elements
RampFrom(s, n) == [i \in 1 .. n |-> s + i]
Ramp(n) == RampFrom(0, n)

\* the r x c matrix with rows Ramp-numbered row by row, re-grouped by column
Regrouped(r, c) == [k \in 1 .. r * c |-> ((k - 1) % r) * c + ((k - 1) \div r) + 1]

\* the flat buffers handed to from_vec and from_slice
FlatInputs ==
    { Ramp(n) : n \in 0 .. MaxLen } \cup { Regrouped(r, c) : r \in Rows, c \in Cols }

\* the row of width n that input position i (from 0) carries
InputRow(i, n) == RampFrom(i * MaxCol, n)

\* every sequence of at most k row widths
RECURSIVE WidthSeqs(_)
WidthSeqs(k) ==
    IF k = 0 THEN { << >> }
    ELSE LET shorter == WidthSeqs(k - 1)
         IN  shorter \cup { Append(w, n) : w \in { x \in shorter : Len(x) = k - 1 }, n \in Cols }

RowInputs == { [i \in 1 .. Len(w) |-> InputRow(i - 1, w[i])] : w \in WidthSeqs(MaxRow + 1) }

\* ----------------------------------------------------------- constructors
MakeMat(values, nrow, ncol, L) ==
    [values |-> values, nrow |-> nrow, ncol |-> ncol, layout |-> L]

\* new taking row-major as the default of MatLayouts
MatBuf_new_row_major_default(nrow, ncol, type) ==
    LET values == [i \in 1 .. nrow * ncol |-> 0]
    IN  MakeMat(values, nrow, ncol,
                IF type = "MatLayouts" THEN [type |-> "MatLayouts", variant |-> "RowMajor"]
                ELSE DefaultLayout(type))

\* MatBuf::new
MatBuf_new(nrow, ncol, type) ==
    LET values == [i \in 1 .. nrow * ncol |-> 0]
    IN  MakeMat(values, nrow, ncol, DefaultLayout(type))

\* from_vec without its length check
MatBuf_from_vec_unchecked(values, nrow, ncol, L) ==
    Ok(MakeMat(values, nrow, ncol, L))

\* from_vec returning a Result's error where the source panics
MatBuf_from_vec_err(values, nrow, ncol, L) ==
    IF Len(values) # nrow * ncol THEN Err
    ELSE Ok(MakeMat(values, nrow, ncol, L))

\* MatBuf::from_vec
MatBuf_from_vec(values, nrow, ncol, L) ==
    IF Len(values) # nrow * ncol THEN Panic
    ELSE Ok(MakeMat(values, nrow, ncol, L))

\* the loop of MatBuf::from_rows: values.extend(row); nrow += 1
RECURSIVE from_rows_loop(_, _, _)
from_rows_loop(rows, nrow, values) ==
    IF Len(rows) = 0 THEN [nrow |-> nrow, values |-> values]
    ELSE from_rows_loop(Tail(rows), nrow + 1, values \o Head(rows))

\* from_rows with nrow and ncol exchanged
MatBuf_from_rows_swapped(rows, N) ==
    LET end == from_rows_loop(rows, 0, << >>)
    IN  MakeMat(end.values, N, end.nrow, RowMajor)

\* MatBuf::from_rows::<N>
MatBuf_from_rows(rows, N) ==
    LET end == from_rows_loop(rows, 0, << >>)
    IN  MakeMat(end.values, end.nrow, N, RowMajor)

\* the loop of from_rows_non_empty rejecting only the rows longer than the first
RECURSIVE from_rows_non_empty_loop_longer(_, _, _, _)
from_rows_non_empty_loop_longer(rows, nrow, ncolumn, values) ==
    IF Len(rows) = 0 THEN Ok([nrow |-> nrow, ncolumn |-> ncolumn, values |-> values])
    ELSE LET row == Head(rows)
         IN  IF IsSome(ncolumn) /\ Unwrap(ncolumn) < Len(row) THEN Err
             ELSE from_rows_non_empty_loop_longer(
                      Tail(rows), nrow + 1,
                      IF IsSome(ncolumn) THEN ncolumn ELSE Some(Len(row)),
                      values \o row)

\* the loop of MatBuf::from_rows_non_empty, with its early return
RECURSIVE from_rows_non_empty_loop(_, _, _, _)
from_rows_non_empty_loop(rows, nrow, ncolumn, values) ==
    IF Len(rows) = 0 THEN Ok([nrow |-> nrow, ncolumn |-> ncolumn, values |-> values])
    ELSE LET row == Head(rows)
         IN  IF IsSome(ncolumn) /\ Unwrap(ncolumn) # Len(row) THEN Err
             ELSE from_rows_non_empty_loop(
                      Tail(rows), nrow + 1,
                      IF IsSome(ncolumn) THEN ncolumn ELSE Some(Len(row)),
                      values \o row)

\* from_rows_non_empty giving an empty matrix for an empty input
MatBuf_from_rows_non_empty_or_zero(rows) ==
    LET end == from_rows_non_empty_loop(rows, 0, None, << >>)
    IN  IF end.kind = "err" THEN Err
        ELSE Ok(Some(MakeMat(end.out.values, end.out.nrow,
                             IF IsSome(end.out.ncolumn) THEN Unwrap(end.out.ncolumn) ELSE 0,
                             RowMajor)))

\* MatBuf::from_rows_non_empty: Err, Ok(None) or Ok(Some(matrix))
MatBuf_from_rows_non_empty(rows) ==
    LET end == from_rows_non_empty_loop(rows, 0, None, << >>)
    IN  IF end.kind = "err" THEN Err
        ELSE IF IsSome(end.out.ncolumn)
             THEN Ok(Some(MakeMat(end.out.values, end.out.nrow,
                                  Unwrap(end.out.ncolumn), RowMajor)))
             ELSE Ok(None)

\* from_slice without its length check
Mat_from_slice_unchecked(values, nrow, ncol, L) ==
    Ok(MakeMat(values, nrow, ncol, L))

\* Mat::from_slice
Mat_from_slice(values, nrow, ncol, L) ==
    IF Len(values) # nrow * ncol THEN Panic
    ELSE Ok(MakeMat(values, nrow, ncol, L))

\* AsMat::as_mat for MatBuf
MatBuf_as_mat(mb) == MakeMat(mb.values, mb.nrow, mb.ncol, mb.layout)

\* -------------------------------------------------------------- accessors
\* Index<[usize; 2]> for MatBuf: the offset addressed and the element there
MatBuf_index(mb, row, col) ==
    IF ~assert_row(row, mb.nrow) THEN Panic
    ELSE IF ~assert_col(col, mb.ncol) THEN Panic
    ELSE LET at == to_index(mb.layout, row, col, mb.nrow, mb.ncol)
             e == SliceAt(mb.values, at)
         IN  IF e.kind = "panic" THEN Panic ELSE Ok([at |-> at, val |-> e.out])

\* IndexMut<[usize; 2]> for MatBuf: the offset of the element lent out
MatBuf_index_mut(mb, row, col) ==
    IF ~assert_row(row, mb.nrow) THEN Panic
    ELSE IF ~assert_col(col, mb.ncol) THEN Panic
    ELSE LET at == to_index(mb.layout, row, col, mb.nrow, mb.ncol)
             e == SliceAt(mb.values, at)
         IN  IF e.kind = "panic" THEN Panic ELSE Ok([at |-> at, val |-> e.out])

\* Index<[usize; 2]> for Mat
Mat_index(v, row, col) ==
    IF ~assert_row(row, v.nrow) THEN Panic
    ELSE IF ~assert_col(col, v.ncol) THEN Panic
    ELSE LET at == to_index(v.layout, row, col, v.nrow, v.ncol)
             e == SliceAt(v.values, at)
         IN  IF e.kind = "panic" THEN Panic ELSE Ok([at |-> at, val |-> e.out])

\* MatBuf::<T, RowMajor>::row: the slice's start offset and its elements
MatBuf_row(mb, row) ==
    IF ~assert_row(row, mb.nrow) THEN Panic
    ELSE SliceFromTo(mb.values, row * mb.ncol, mb.ncol)

\* MatBuf::<T, RowMajor>::row_mut
MatBuf_row_mut(mb, row) ==
    IF ~assert_row(row, mb.nrow) THEN Panic
    ELSE SliceFromTo(mb.values, row * mb.ncol, mb.ncol)

\* col taking ncol elements where the source takes nrow
MatBuf_col_ncol_long(mb, col) ==
    IF ~assert_col(col, mb.ncol) THEN Panic
    ELSE SliceFromTo(mb.values, col * mb.nrow, mb.ncol)

\* MatBuf::<T, ColMajor>::col
MatBuf_col(mb, col) ==
    IF ~assert_col(col, mb.ncol) THEN Panic
    ELSE SliceFromTo(mb.values, col * mb.nrow, mb.nrow)

\* MatBuf::<T, ColMajor>::col_mut
MatBuf_col_mut(mb, col) ==
    IF ~assert_col(col, mb.ncol) THEN Panic
    ELSE SliceFromTo(mb.values, col * mb.nrow, mb.nrow)

\* MatBuf::as_mut_slice
MatBuf_as_mut_slice(mb) == [start |-> 0, vals |-> mb.values]

\* a store that grows the buffer by the element stored
StoreAt_pushing(mb, slice, j, value) ==
    IF j < Len(slice.vals)
    THEN Ok([mb EXCEPT !.values = Append(mb.values, value)])
    ELSE Panic

\* `slice[j] = value` through a mutable slice of mb.values that starts at
\* offset slice.start: the buffer after the store, or the index panic
StoreAt(mb, slice, j, value) ==
    IF j < Len(slice.vals)
    THEN Ok([mb EXCEPT !.values[slice.start + j + 1] = value])
    ELSE Panic

\* MatBuf::as_slice
MatBuf_as_slice(mb) == mb.values

\* the closures handed to map
MapFns == {"double", "quad"}
Apply(f, x) ==
    CASE f = "double" -> 2 * x
      [] f = "quad"   -> 4 * x

\* map giving the result the shape of the transposed matrix
MatBuf_map_transposed(mb, f) ==
    MakeMat([k \in 1 .. Len(mb.values) |-> Apply(f, mb.values[k])], mb.ncol, mb.nrow, mb.layout)

\* MatBuf::map
MatBuf_map(mb, f) ==
    MakeMat([k \in 1 .. Len(mb.values) |-> Apply(f, mb.values[k])], mb.nrow, mb.ncol, mb.layout)

\* ------------------------------------------------------------------ views
\* Mat::<T, RowMajor>::row
Mat_row(v, row) ==
    IF ~assert_row(row, v.nrow) THEN Panic
    ELSE SliceFromTo(v.values, row * v.ncol, v.ncol)

\* Mat::<T, ColMajor>::col
Mat_col(v, col) ==
    IF ~assert_col(col, v.ncol) THEN Panic
    ELSE SliceFromTo(v.values, col * v.nrow, v.ncol)

\* A RangeBounds<usize> value: its start_bound() and end_bound()
Unbounded == [kind |-> "Unbounded", v |-> 0]
Included(n) == [kind |-> "Included", v |-> n]
Excluded(n) == [kind |-> "Excluded", v |-> n]
Bounds(S) == {Unbounded} \cup { Included(n) : n \in S } \cup { Excluded(n) : n \in S }
RangesOver(S) == [start : Bounds(S), end : Bounds(S)]

\* usize, at a width that the model's integers hold
UsizeBits == 16
UsizeMax == 2 ^ UsizeBits - 1

\* n + 1 in usize: the addition to usize::MAX panics in a build with overflow
\* checks and wraps to 0 in a build without
add_one(n, overflow_checks) ==
    IF n < UsizeMax THEN Ok(n + 1)
    ELSE IF overflow_checks THEN Panic
    ELSE Ok(0)

\* The builds to tell apart on a range: both where to_range adds 1 to
\* usize::MAX; on every other range the two builds compute the same, and the
\* one with overflow checks stands for both.
Builds(value) ==
    IF \/ value.start.kind = "Excluded" /\ value.start.v = UsizeMax
       \/ value.end.kind = "Included" /\ value.end.v = UsizeMax
    THEN BOOLEAN
    ELSE {TRUE}

\* to_range
to_range(value, len, overflow_checks) ==
    LET start == CASE value.start.kind = "Included"  -> Ok(value.start.v)
                   [] value.start.kind = "Excluded"  -> add_one(value.start.v, overflow_checks)
                   [] value.start.kind = "Unbounded" -> Ok(0)
        end   == CASE value.end.kind = "Included"  -> add_one(value.end.v, overflow_checks)
                   [] value.end.kind = "Excluded"  -> Ok(value.end.v)
                   [] value.end.kind = "Unbounded" -> Ok(len)
    IN  IF start.kind = "panic" \/ end.kind = "panic" THEN Panic
        ELSE Ok([start |-> start.out, end |-> end.out])

\* assert_range: TRUE when both assertions pass
assert_range(range, len) ==
    /\ range.start <= range.end
    /\ range.end <= len

\* rows slicing from the start of the buffer whatever the range's start
Mat_rows_from_zero(v, value, overflow_checks) ==
    LET normal == to_range(value, v.nrow, overflow_checks)
        range == normal.out
    IN  IF normal.kind = "panic" THEN Panic
        ELSE IF ~assert_range(range, v.nrow) THEN Panic
        ELSE LET nrow == range.end - range.start
                 slice == SliceFromTo(v.values, 0, nrow * v.ncol)
             IN  IF slice.kind = "panic" THEN Panic
                 ELSE Ok([start |-> slice.out.start,
                          mat |-> MakeMat(slice.out.vals, nrow, v.ncol, v.layout)])

\* Mat::<T, RowMajor>::rows: the sub-view and where its slice starts in v's
Mat_rows(v, value, overflow_checks) ==
    LET normal == to_range(value, v.nrow, overflow_checks)
        range == normal.out
    IN  IF normal.kind = "panic" THEN Panic
        ELSE IF ~assert_range(range, v.nrow) THEN Panic
        ELSE LET nrow == range.end - range.start
                 slice == SliceFromTo(v.values, range.start * v.ncol, nrow * v.ncol)
             IN  IF slice.kind = "panic" THEN Panic
                 ELSE Ok([start |-> slice.out.start,
                          mat |-> MakeMat(slice.out.vals, nrow, v.ncol, v.layout)])

\* Mat::<T, ColMajor>::cols
Mat_cols(v, value, overflow_checks) ==
    LET normal == to_range(value, v.ncol, overflow_checks)
        range == normal.out
    IN  IF normal.kind = "panic" THEN Panic
        ELSE IF ~assert_range(range, v.ncol) THEN Panic
        ELSE LET ncol == range.end - range.start
                 slice == SliceFromTo(v.values, range.start * v.nrow, ncol * v.nrow)
             IN  IF slice.kind = "panic" THEN Panic
                 ELSE Ok([start |-> slice.out.start,
                          mat |-> MakeMat(slice.out.vals, v.nrow, ncol, v.layout)])

\* MatBuf::<T, RowMajor>::rows
MatBuf_rows(mb, value, overflow_checks) ==
    Mat_rows(MatBuf_as_mat(mb), value, overflow_checks)

\* MatBuf::<T, ColMajor>::cols
MatBuf_cols(mb, value, overflow_checks) ==
    Mat_cols(MatBuf_as_mat(mb), value, overflow_checks)

\* ---------------------------------------------------------------- Debug
\* cell!("{:?}", x): the text of an element
Cell(x) == ToString(x)

\* Debug for Mat filling the grid from the buffer in its physical order
Mat_fmt_buffer_order(v) ==
    [header |-> [c \in 1 .. v.ncol |-> c - 1],
     rows |-> [r \in 1 .. v.nrow |->
                  [c \in 1 .. v.ncol |-> Cell(v.values[(r - 1) * v.ncol + c])]]]

\* Debug for Mat: the grid handed to the table writer, one column per col
\* in 0..ncol headed by col, one line per row in 0..nrow, the cell of
\* (row, col) being self[[row, col]]
Mat_fmt(v) ==
    [header |-> [c \in 1 .. v.ncol |-> c - 1],
     rows |-> [r \in 1 .. v.nrow |->
                  [c \in 1 .. v.ncol |-> Cell(Mat_index(v, r - 1, c - 1).out.val)]]]

\* Debug for MatBuf
MatBuf_fmt(mb) == Mat_fmt(MatBuf_as_mat(mb))

\* --------------------------------------------------------------- datasets
\* bool_to_int
bool_to_int(value) == IF value THEN 1 ELSE 0

\* Mat::layout
Mat_layout(v) == layout(v.layout)

\* is_row_major with the flag's two values exchanged
Mat_is_row_major_inverted(v) == bool_to_int(Mat_layout(v) = "ColMajor")

\* Mat::is_row_major
Mat_is_row_major(v) == bool_to_int(Mat_layout(v) = "RowMajor")

\* Mat::as_data_ptr: the address of the first element of the view's slice,
\* ptr, as a *const c_void
Mat_as_data_ptr(v, ptr) == ptr

\* usize to i32 by try_into()
I32Max == 2147483647
try_into_i32(n) == IF n <= I32Max THEN Ok(n) ELSE Err

\* A parameter string is the sequence of its bytes. to_cstring fails on one
\* that holds a NUL byte.
ParamInputs == { << >>, <<1, 0, 1>> }
to_cstring(value) ==
    IF \E i \in 1 .. Len(value) : value[i] = 0 THEN Err ELSE Ok(value)

\* The engine's LGBM_DatasetCreateFromMat, returning `code`: with code 0 the
\* handle is a dataset of nrow data and ncol features.
EngineCodes == {0, -1}
LGBM_DatasetCreateFromMat(call, code) ==
    [code |-> code,
     handle |-> IF code = 0
                THEN Some([num_data |-> call.nrow, num_feature |-> call.ncol])
                ELSE None]

\* The engine's LGBM_DatasetGetNumData and LGBM_DatasetGetNumFeature
LGBM_DatasetGetNumData(handle) == handle.num_data
LGBM_DatasetGetNumFeature(handle) == handle.num_feature

\* to_result
to_result(code) == IF code = 0 THEN Ok(<< >>) ELSE Err

\* what a Dataset constructor ends with: the error of a `?` before the
\* engine is called, the engine's error, or the dataset
ErrBeforeCall == [kind |-> "err", out |-> [call |-> None, dataset |-> None]]
AfterCall(call, r) ==
    [kind |-> to_result(r.code).kind, out |-> [call |-> Some(call), dataset |-> r.handle]]

\* from_mat handing the row count as the column count and the reverse
Dataset_from_mat_swapped(mat, ptr, parameters, code) ==
    LET data == Mat_as_data_ptr(mat, ptr)
        nrow == try_into_i32(mat.nrow)
        ncol == try_into_i32(mat.ncol)
        is_row_major == Mat_is_row_major(mat)
        cstring == to_cstring(parameters)
    IN  IF nrow.kind = "err" \/ ncol.kind = "err" \/ cstring.kind = "err" THEN ErrBeforeCall
        ELSE LET call == [data |-> data, nrow |-> ncol.out, ncol |-> nrow.out,
                          is_row_major |-> is_row_major, parameters |-> cstring.out]
             IN  AfterCall(call, LGBM_DatasetCreateFromMat(call, code))

\* Dataset::from_mat, mat the view that as_mat() gives and ptr where its
\* slice starts; `code` is what the engine returns
Dataset_from_mat(mat, ptr, parameters, code) ==
    LET data == Mat_as_data_ptr(mat, ptr)
        nrow == try_into_i32(mat.nrow)
        ncol == try_into_i32(mat.ncol)
        is_row_major == Mat_is_row_major(mat)
        cstring == to_cstring(parameters)
    IN  IF nrow.kind = "err" \/ ncol.kind = "err" \/ cstring.kind = "err" THEN ErrBeforeCall
        ELSE LET call == [data |-> data, nrow |-> nrow.out, ncol |-> ncol.out,
                          is_row_major |-> is_row_major, parameters |-> cstring.out]
             IN  AfterCall(call, LGBM_DatasetCreateFromMat(call, code))

\* The engine's LGBM_DatasetCreateFromMats, returning `code`: with code 0
\* the handle is a dataset of the nmat matrices' rows, one after the other,
\* and ncol features.
RECURSIVE SumOf(_)
SumOf(ns) == IF ns = << >> THEN 0 ELSE Head(ns) + SumOf(Tail(ns))
LGBM_DatasetCreateFromMats(call, code) ==
    [code |-> code,
     handle |-> IF code = 0
                THEN Some([num_data |-> SumOf(SubSeq(call.nrows, 1, call.nmat)),
                           num_feature |-> call.ncol])
                ELSE None]

\* the loop of from_mats putting each matrix before those already taken
RECURSIVE from_mats_loop_prepending(_, _, _, _, _, _)
from_mats_loop_prepending(mats, ptrs, ncol, is_row_major, nrows, mat_ptrs) ==
    IF mats = << >> THEN Ok([nrows |-> nrows, mat_ptrs |-> mat_ptrs])
    ELSE LET mat == Head(mats)
             nrow == try_into_i32(mat.nrow)
         IN  IF mat.ncol # ncol THEN Err
             ELSE IF Mat_is_row_major(mat) # is_row_major THEN Err
             ELSE IF nrow.kind = "err" THEN Err
             ELSE from_mats_loop_prepending(Tail(mats), Tail(ptrs), ncol, is_row_major,
                                            <<nrow.out>> \o nrows,
                                            <<Mat_as_data_ptr(mat, Head(ptrs))>> \o mat_ptrs)

\* the loop of from_mats comparing no matrix with the first one
RECURSIVE from_mats_loop_unchecked(_, _, _, _, _, _)
from_mats_loop_unchecked(mats, ptrs, ncol, is_row_major, nrows, mat_ptrs) ==
    IF mats = << >> THEN Ok([nrows |-> nrows, mat_ptrs |-> mat_ptrs])
    ELSE LET mat == Head(mats)
             nrow == try_into_i32(mat.nrow)
         IN  IF nrow.kind = "err" THEN Err
             ELSE from_mats_loop_unchecked(Tail(mats), Tail(ptrs), ncol, is_row_major,
                                           Append(nrows, nrow.out),
                                           Append(mat_ptrs, Mat_as_data_ptr(mat, Head(ptrs))))

\* the loop of from_mats over the matrices not yet taken: the row counts
\* and buffer starts pushed, or the error it returns with
RECURSIVE from_mats_loop(_, _, _, _, _, _)
from_mats_loop(mats, ptrs, ncol, is_row_major, nrows, mat_ptrs) ==
    IF mats = << >> THEN Ok([nrows |-> nrows, mat_ptrs |-> mat_ptrs])
    ELSE LET mat == Head(mats)
             nrow == try_into_i32(mat.nrow)
         IN  IF mat.ncol # ncol THEN Err
             ELSE IF Mat_is_row_major(mat) # is_row_major THEN Err
             ELSE IF nrow.kind = "err" THEN Err
             ELSE from_mats_loop(Tail(mats), Tail(ptrs), ncol, is_row_major,
                                 Append(nrows, nrow.out),
                                 Append(mat_ptrs, Mat_as_data_ptr(mat, Head(ptrs))))

\* Dataset::from_mats, mats the views that as_mat() gives of the matrices
\* collected and ptrs where their slices start; `code` is what the engine
\* returns
Dataset_from_mats(mats, ptrs, parameters, code) ==
    IF mats = << >> THEN ErrBeforeCall
    ELSE LET ncol == mats[1].ncol
             is_row_major == Mat_is_row_major(mats[1])
             pushed == from_mats_loop(mats, ptrs, ncol, is_row_major, << >>, << >>)
             nmat == try_into_i32(Len(mats))
             ncol32 == try_into_i32(ncol)
             cstring == to_cstring(parameters)
         IN  IF pushed.kind = "err" \/ nmat.kind = "err" \/ ncol32.kind = "err"
                    \/ cstring.kind = "err"
             THEN ErrBeforeCall
             ELSE LET call == [nmat |-> nmat.out, mat_ptrs |-> pushed.out.mat_ptrs,
                               nrows |-> pushed.out.nrows, ncol |-> ncol32.out,
                               is_row_major |-> is_row_major, parameters |-> cstring.out]
                  IN  AfterCall(call, LGBM_DatasetCreateFromMats(call, code))

\* Dataset::get_num_data and Dataset::get_num_feature
Dataset_get_num_data(dataset) == LGBM_DatasetGetNumData(dataset)
Dataset_get_num_feature(dataset) == LGBM_DatasetGetNumFeature(dataset)

\* ---------------------------------------------------------------- actions
Init ==
    /\ m = None
    /\ view = None
    /\ vptr = 0
    /\ res = [op |-> "init", kind |-> "ok", args |-> << >>, out |-> << >>]
    /\ written = FALSE
    /\ booster = None
    /\ arcs = << >>
    /\ native = [datasets |-> << >>, model |-> None, freed |-> << >>]
    /\ prediction = None

Result(op, args, r) == [op |-> op, kind |-> r.kind, args |-> args, out |-> r.out]

\* One matrix is under test in a run: a constructor is the run's first call.
NoMatrix == m = None /\ view = None /\ res.op = "init"

\* the matrix a MatBuf constructor returned becomes m
Constructed(op, args, r) ==
    /\ m' = IF r.kind = "ok" THEN Some(r.out) ELSE None
    /\ res' = Result(op, args, r)
    /\ UNCHANGED <<view, vptr, written, ffi>>

\* let m = MatBuf::<T, L>::new(nrow, ncol)
New ==
    /\ NoMatrix
    /\ \E nrow \in Rows, ncol \in Cols, type \in {"RowMajor", "ColMajor", "MatLayouts"} :
           Constructed("MatBuf::new", [nrow |-> nrow, ncol |-> ncol, type |-> type],
                       Ok(MatBuf_new(nrow, ncol, type)))

\* let m = MatBuf::from_vec(values, nrow, ncol, layout)
FromVec ==
    /\ NoMatrix
    /\ \E values \in FlatInputs, nrow \in Rows, ncol \in Cols, L \in Layouts :
           Constructed("MatBuf::from_vec",
                       [values |-> values, nrow |-> nrow, ncol |-> ncol, layout |-> L],
                       MatBuf_from_vec(values, nrow, ncol, L))

\* let m = MatBuf::from_rows::<N>(rows), every row an array [T; N]
FromRows ==
    /\ NoMatrix
    /\ \E k \in InRows, N \in Cols :
           LET rows == [i \in 1 .. k |-> InputRow(i - 1, N)]
           IN  Constructed("MatBuf::from_rows", [rows |-> rows, N |-> N],
                           Ok(MatBuf_from_rows(rows, N)))

\* let m = MatBuf::from_rows_non_empty(rows), rows of any widths: the
\* Result<Option<MatBuf>> is res, the matrix (if any) becomes m
FromRowsNonEmpty ==
    /\ NoMatrix
    /\ \E rows \in RowInputs :
           LET r == MatBuf_from_rows_non_empty(rows)
           IN  /\ m' = IF r.kind = "ok" THEN r.out ELSE None
               /\ res' = Result("MatBuf::from_rows_non_empty", [rows |-> rows], r)
               /\ UNCHANGED <<view, vptr, written, ffi>>

\* let view = Mat::from_slice(values, nrow, ncol, layout)
FromSlice ==
    /\ NoMatrix
    /\ \E values \in FlatInputs, nrow \in Rows, ncol \in Cols, L \in Layouts :
           LET r == Mat_from_slice(values, nrow, ncol, L)
           IN  /\ view' = IF r.kind = "ok" THEN Some(r.out) ELSE None
               /\ vptr' = 0
               /\ res' = Result("Mat::from_slice",
                                [values |-> values, nrow |-> nrow, ncol |-> ncol, layout |-> L], r)
               /\ UNCHANGED <<m, written, ffi>>

\* let view = m.as_mat()
AsMat ==
    /\ IsSome(m)
    /\ view' = Some(MatBuf_as_mat(Unwrap(m)))
    /\ vptr' = 0
    /\ res' = Result("MatBuf::as_mat", << >>, Ok(MatBuf_as_mat(Unwrap(m))))
    /\ UNCHANGED <<m, written, ffi>>

\* m[[row, col]]
Index ==
    /\ IsSome(m)
    /\ \E row \in RowArgs, col \in Cols :
           res' = Result("MatBuf::index", [row |-> row, col |-> col],
                         MatBuf_index(Unwrap(m), row, col))
    /\ UNCHANGED <<m, view, vptr, written, ffi>>

\* view[[row, col]]
ViewIndex ==
    /\ IsSome(view)
    /\ \E row \in RowArgs, col \in Cols :
           res' = Result("Mat::index", [row |-> row, col |-> col],
                         Mat_index(Unwrap(view), row, col))
    /\ UNCHANGED <<m, view, vptr, written, ffi>>

\* m.row(row), on a MatBuf<T, RowMajor>
Row ==
    /\ IsSome(m)
    /\ Unwrap(m).layout = RowMajor
    /\ \E row \in RowArgs :
           res' = Result("MatBuf::row", [row |-> row], MatBuf_row(Unwrap(m), row))
    /\ UNCHANGED <<m, view, vptr, written, ffi>>

\* m.col(col), on a MatBuf<T, ColMajor>
Col ==
    /\ IsSome(m)
    /\ Unwrap(m).layout = ColMajor
    /\ \E col \in Cols :
           res' = Result("MatBuf::col", [col |-> col], MatBuf_col(Unwrap(m), col))
    /\ UNCHANGED <<m, view, vptr, written, ffi>>

\* A run makes one store.  The mutable accessors read nrow, ncol, the layout
\* and the buffer's length, none of which a store changes, and the elements
\* of the inputs are pairwise distinct, so a store into every constructed
\* matrix shows what a store does to any matrix.
CanWrite == IsSome(m) /\ ~written

\* `lent[j] = value`, lent the outcome of a mutable accessor: res.out is the
\* slice lent (None when the accessor panicked), res.kind the store's outcome.
\* The accessor borrows m exclusively, which ends every view of m; a panic
\* leaves the buffer as it was.
Stored(op, args, lent, j, value) ==
    LET r == IF lent.kind = "panic" THEN Panic ELSE StoreAt(Unwrap(m), lent.out, j, value)
    IN  /\ m' = IF r.kind = "ok" THEN Some(r.out) ELSE m
        /\ written' = TRUE
        /\ view' = None
        /\ vptr' = 0
        /\ UNCHANGED ffi
        /\ res' = [op |-> op, kind |-> r.kind, args |-> args,
                   out |-> IF lent.kind = "panic" THEN None ELSE Some(lent.out)]

\* m[[row, col]] = value
IndexMut ==
    /\ CanWrite
    /\ \E row \in RowArgs, col \in Cols, value \in Elem :
           LET e == MatBuf_index_mut(Unwrap(m), row, col)
           IN  Stored("MatBuf::index_mut", [row |-> row, col |-> col, value |-> value],
                      IF e.kind = "panic" THEN Panic
                      ELSE Ok([start |-> e.out.at, vals |-> << e.out.val >>]),
                      0, value)

\* m.row_mut(row)[j] = value, on a MatBuf<T, RowMajor>
RowMut ==
    /\ CanWrite
    /\ Unwrap(m).layout = RowMajor
    /\ \E row \in RowArgs, j \in Cols, value \in Elem :
           Stored("MatBuf::row_mut", [row |-> row, j |-> j, value |-> value],
                  MatBuf_row_mut(Unwrap(m), row), j, value)

\* m.col_mut(col)[i] = value, on a MatBuf<T, ColMajor>
ColMut ==
    /\ CanWrite
    /\ Unwrap(m).layout = ColMajor
    /\ \E col \in Cols, i \in Rows, value \in Elem :
           Stored("MatBuf::col_mut", [col |-> col, i |-> i, value |-> value],
                  MatBuf_col_mut(Unwrap(m), col), i, value)

\* m.as_mut_slice()[k] = value
AsMutSlice ==
    /\ CanWrite
    /\ \E k \in 0 .. MaxLen, value \in Elem :
           Stored("MatBuf::as_mut_slice", [k |-> k, value |-> value],
                  Ok(MatBuf_as_mut_slice(Unwrap(m))), k, value)

Next ==
    \/ New
    \/ FromVec
    \/ FromRows
    \/ FromRowsNonEmpty
    \/ FromSlice
    \/ AsMat
    \/ Index
    \/ ViewIndex
    \/ Row
    \/ Col
    \/ IndexMut
    \/ RowMut
    \/ ColMut
    \/ AsMutSlice

Spec == Init /\ [][Next]_vars

\* ----------------------------------------------------------- view actions
\* view.row(row), on a Mat<T, RowMajor>
ViewRow ==
    /\ IsSome(view)
    /\ Unwrap(view).layout = RowMajor
    /\ \E row \in RowArgs :
           res' = Result("Mat::row", [row |-> row], Mat_row(Unwrap(view), row))
    /\ UNCHANGED <<m, view, vptr, written, ffi>>

\* view.col(col), on a Mat<T, ColMajor>
ViewCol ==
    /\ IsSome(view)
    /\ Unwrap(view).layout = ColMajor
    /\ \E col \in Cols :
           res' = Result("Mat::col", [col |-> col], Mat_col(Unwrap(view), col))
    /\ UNCHANGED <<m, view, vptr, written, ffi>>

\* the view a sub-range call returned replaces the one it was taken from;
\* its slice starts r.out.start elements further into the borrowed buffer
SubView(op, value, r) ==
    /\ view' = IF r.kind = "ok" THEN Some(r.out.mat) ELSE view
    /\ vptr' = IF r.kind = "ok" THEN vptr + r.out.start ELSE vptr
    /\ res' = Result(op, [range |-> value, of |-> Unwrap(view), ptr |-> vptr], r)
    /\ UNCHANGED <<m, written, ffi>>

\* the ranges a .. b
HalfOpen(S) == { [start |-> Included(a), end |-> Excluded(b)] : a \in S, b \in S }

\* let view = view.rows(a .. b), on a Mat<T, RowMajor>
ViewRows ==
    /\ IsSome(view)
    /\ Unwrap(view).layout = RowMajor
    /\ \E value \in HalfOpen(RowArgs) : \E overflow_checks \in Builds(value) :
           SubView("Mat::rows", value, Mat_rows(Unwrap(view), value, overflow_checks))

\* let view = view.cols(a .. b), on a Mat<T, ColMajor>
ViewCols ==
    /\ IsSome(view)
    /\ Unwrap(view).layout = ColMajor
    /\ \E value \in HalfOpen(Cols) : \E overflow_checks \in Builds(value) :
           SubView("Mat::cols", value, Mat_cols(Unwrap(view), value, overflow_checks))

\* let view = m.rows(range), on a MatBuf<T, RowMajor>: the first view taken
\* of m, with every kind of range bound, in either build
BufRows ==
    /\ IsSome(m)
    /\ view = None
    /\ Unwrap(m).layout = RowMajor
    /\ \E value \in RangesOver(RowArgs \cup {UsizeMax}) : \E overflow_checks \in Builds(value) :
           LET r == MatBuf_rows(Unwrap(m), value, overflow_checks)
           IN  /\ view' = IF r.kind = "ok" THEN Some(r.out.mat) ELSE None
               /\ vptr' = IF r.kind = "ok" THEN r.out.start ELSE 0
               /\ res' = Result("MatBuf::rows", [range |-> value], r)
               /\ UNCHANGED <<m, written, ffi>>

\* let view = m.cols(range), on a MatBuf<T, ColMajor>: the first view taken
\* of m, with every kind of range bound, in either build
BufCols ==
    /\ IsSome(m)
    /\ view = None
    /\ Unwrap(m).layout = ColMajor
    /\ \E value \in RangesOver(Cols \cup {UsizeMax}) : \E overflow_checks \in Builds(value) :
           LET r == MatBuf_cols(Unwrap(m), value, overflow_checks)
           IN  /\ view' = IF r.kind = "ok" THEN Some(r.out.mat) ELSE None
               /\ vptr' = IF r.kind = "ok" THEN r.out.start ELSE 0
               /\ res' = Result("MatBuf::cols", [range |-> value], r)
               /\ UNCHANGED <<m, written, ffi>>

\* format!("{:?}", view)
Fmt ==
    /\ IsSome(view)
    /\ res' = Result("Mat::fmt", << >>, Ok(Mat_fmt(Unwrap(view))))
    /\ UNCHANGED <<m, view, vptr, written, ffi>>

\* format!("{:?}", m), on a MatBuf<T>, which is a MatBuf<T, ColMajor>
BufFmt ==
    /\ IsSome(m)
    /\ Unwrap(m).layout.type = "ColMajor"
    /\ res' = Result("MatBuf::fmt", << >>, Ok(MatBuf_fmt(Unwrap(m))))
    /\ UNCHANGED <<m, view, vptr, written, ffi>>

\* Dataset::from_mat(view, None, &parameters)
FromMat ==
    /\ IsSome(view)
    /\ \E parameters \in ParamInputs, code \in EngineCodes :
           res' = Result("Dataset::from_mat",
                         [mat |-> Unwrap(view), ptr |-> vptr, parameters |-> parameters],
                         Dataset_from_mat(Unwrap(view), vptr, parameters, code))
    /\ UNCHANGED <<m, view, vptr, written, ffi>>

\* the matrices handed to from_mats: of one layout type, at most MaxMats of
\* them, each of one of two widths and with up to MaxRow + 1 rows
MaxMats == 2
MatInputs(type) ==
    { MakeMat(Ramp(nrow * ncol), nrow, ncol, L) :
          nrow \in InRows, ncol \in {MaxCol - 1, MaxCol},
          L \in { x \in Layouts : x.type = type } }
RECURSIVE MatLists(_, _)
MatLists(type, k) ==
    IF k = 0 THEN { << >> }
    ELSE LET shorter == MatLists(type, k - 1)
         IN  shorter \cup { Append(l, mb) : l \in { x \in shorter : Len(x) = k - 1 },
                                           mb \in MatInputs(type) }

\* Dataset::from_mats(mats, None, &parameters): mats are matrices of the
\* call's own, the i-th one's buffer at the address i
FromMats ==
    /\ NoMatrix
    /\ \E type \in {"RowMajor", "ColMajor", "MatLayouts"} :
       \E mats \in MatLists(type, MaxMats), parameters \in ParamInputs, code \in EngineCodes :
           res' = Result("Dataset::from_mats",
                         [mats |-> mats, parameters |-> parameters],
                         Dataset_from_mats([i \in 1 .. Len(mats) |-> MatBuf_as_mat(mats[i])],
                                           [i \in 1 .. Len(mats) |-> i],
                                           parameters, code))
    /\ UNCHANGED <<m, view, vptr, written, ffi>>

\* let m = MatBuf::from_vec(values, nrow, ncol, layout), the buffer's
\* elements pairwise distinct and of the right number
FromVecDistinct ==
    /\ NoMatrix
    /\ \E nrow \in Rows, ncol \in Cols, L \in Layouts :
           LET values == Ramp(nrow * ncol)
           IN  Constructed("MatBuf::from_vec",
                           [values |-> values, nrow |-> nrow, ncol |-> ncol, layout |-> L],
                           MatBuf_from_vec(values, nrow, ncol, L))

\* The views of one matrix: a matrix of pairwise distinct elements, the
\* views taken of it and of its views, and the reads of a view.
NextView ==
    \/ FromVecDistinct
    \/ AsMat
    \/ ViewIndex
    \/ ViewRow
    \/ ViewCol
    \/ ViewRows
    \/ ViewCols
    \/ BufRows
    \/ BufCols
    \/ FromMat
    \/ Fmt
    \/ BufFmt

SpecView == Init /\ [][NextView]_vars

\* The datasets made of matrices: of a view of m, or of a list of matrices.
NextDataset ==
    \/ FromVecDistinct
    \/ AsMat
    \/ FromMat
    \/ FromMats

SpecDataset == Init /\ [][NextDataset]_vars

\* ------------------------------------------------------------------ claims
InBounds(mat, row, col) == row < mat.nrow /\ col < mat.ncol

\* C1: every MatBuf that exists, whether new, from_vec, from_rows or
\* from_rows_non_empty built it, and also after a store through index_mut,
\* row_mut, col_mut or as_mut_slice, has a flat buffer of nrow * ncol elements.
C1_BufferLength ==
    IsSome(m) => Len(Unwrap(m).values) = Unwrap(m).nrow * Unwrap(m).ncol

C1_Witness ==
    /\ IsSome(m)
    /\ res.op = "MatBuf::row_mut" /\ res.kind = "ok"
    /\ Unwrap(m).nrow = 2 /\ Unwrap(m).ncol = 3

\* the offset the layout rule gives [row, col]
ExpectedOffset(mat, row, col) ==
    IF layout(mat.layout) = "RowMajor" THEN row * mat.ncol + col ELSE col * mat.nrow + row

\* C2: indexing an in-bounds [row, col] of an owning buffer (read or write) or
\* of a view addresses flat offset row*ncol + col in a row-major matrix and
\* col*nrow + row in a column-major one; in the 2x3 column-major matrix with
\* flat buffer [1,4,2,5,3,6] the element [row, col] is the one of the logical
\* rows [1,2,3] and [4,5,6].
C2_IndexOffset ==
    /\ (res.op = "MatBuf::index" /\ InBounds(Unwrap(m), res.args.row, res.args.col)) =>
           LET mb == Unwrap(m)
               at == ExpectedOffset(mb, res.args.row, res.args.col)
           IN  /\ res.kind = "ok"
               /\ res.out.at = at
               /\ res.out.val = mb.values[at + 1]
               /\ (mb.values = <<1, 4, 2, 5, 3, 6>> /\ mb.nrow = 2 /\ mb.ncol = 3
                     /\ layout(mb.layout) = "ColMajor") =>
                      res.out.val = << <<1, 2, 3>>, <<4, 5, 6>> >>[res.args.row + 1][res.args.col + 1]
    /\ (res.op = "Mat::index" /\ InBounds(Unwrap(view), res.args.row, res.args.col)) =>
           LET v == Unwrap(view)
               at == ExpectedOffset(v, res.args.row, res.args.col)
           IN  /\ res.kind = "ok"
               /\ res.out.at = at
               /\ res.out.val = v.values[at + 1]
    /\ (res.op = "MatBuf::index_mut" /\ InBounds(Unwrap(m), res.args.row, res.args.col)) =>
           LET mb == Unwrap(m)
               at == ExpectedOffset(mb, res.args.row, res.args.col)
           IN  /\ res.kind = "ok"
               /\ IsSome(res.out)
               /\ Unwrap(res.out).start = at
               /\ mb.values[at + 1] = res.args.value

C2_Witness ==
    /\ m = Some(MakeMat(<<1, 4, 2, 5, 3, 6>>, 2, 3, ColMajor))
    /\ res.op = "MatBuf::index"
    /\ res.args = [row |-> 1, col |-> 2]
    /\ res.kind = "ok"
    /\ res.out = [at |-> 5, val |-> 6]

\* C3: indexing [row, col] with row >= nrow or col >= ncol, for reading or
\* for writing, on an owning buffer or on a view, panics: it returns and lends
\* no element and changes neither the buffer nor the view, also when the
\* layout rule's offset for [row, col] lies inside the buffer.
C3_OutOfBoundsPanics ==
    [][ /\ (res'.op = "MatBuf::index" /\ ~InBounds(Unwrap(m), res'.args.row, res'.args.col)) =>
               (res'.kind = "panic" /\ res'.out = << >> /\ m' = m /\ view' = view)
        /\ (res'.op = "MatBuf::index_mut" /\ ~InBounds(Unwrap(m), res'.args.row, res'.args.col)) =>
               (res'.kind = "panic" /\ res'.out = None /\ m' = m)
        /\ (res'.op = "Mat::index" /\ ~InBounds(Unwrap(view), res'.args.row, res'.args.col)) =>
               (res'.kind = "panic" /\ res'.out = << >> /\ m' = m /\ view' = view)
      ]_vars

C3_Witness ==
    /\ IsSome(m)
    /\ res.op = "MatBuf::index_mut" /\ res.kind = "panic"
    /\ layout(Unwrap(m).layout) = "RowMajor"
    /\ res.args.col = Unwrap(m).ncol
    /\ res.args.row + 1 < Unwrap(m).nrow

\* C4: a store of v at an in-bounds [r, c] through the mutable index makes a
\* read of [r, c] return v and leaves the read of every other in-bounds
\* [r2, c2] as it was before the store, in either layout.
C4_StoreThenRead ==
    [][ (res'.op = "MatBuf::index_mut" /\ res'.kind = "ok") =>
            LET before == Unwrap(m)
                after == Unwrap(m')
                r == res'.args.row
                c == res'.args.col
            IN  /\ MatBuf_index(after, r, c).kind = "ok"
                /\ MatBuf_index(after, r, c).out.val = res'.args.value
                /\ \A r2 \in { x \in RowArgs : x < before.nrow },
                      c2 \in { x \in Cols : x < before.ncol } :
                       <<r2, c2>> # <<r, c>> =>
                           /\ MatBuf_index(before, r2, c2).kind = "ok"
                           /\ MatBuf_index(after, r2, c2) = MatBuf_index(before, r2, c2)
      ]_vars

C4_Witness ==
    /\ IsSome(m)
    /\ res.op = "MatBuf::index_mut" /\ res.kind = "ok"
    /\ Unwrap(m).nrow = 2 /\ Unwrap(m).ncol = 3
    /\ layout(Unwrap(m).layout) = "ColMajor"
    /\ Unwrap(res.out).vals # << res.args.value >>

\* the concatenation of rows that are all N wide
FlatOf(rows, N) ==
    [k \in 1 .. Len(rows) * N |-> rows[((k - 1) \div N) + 1][((k - 1) % N) + 1]]

\* mb is the row-major matrix of the rows, each N wide
IsMatrixOfRows(mb, rows, N) ==
    /\ mb.nrow = Len(rows)
    /\ mb.ncol = N
    /\ mb.layout = RowMajor
    /\ mb.values = FlatOf(rows, N)
    /\ \A i \in 1 .. Len(rows) :
           MatBuf_row(mb, i - 1) = Ok([start |-> (i - 1) * N, vals |-> rows[i]])

SameWidths(rows) == \A i \in 1 .. Len(rows) : Len(rows[i]) = Len(rows[1])

\* C5: from_rows on k rows of width N, and from_rows_non_empty on k >= 1 rows
\* that are all N long, give the row-major matrix with nrow = k and ncol = N
\* whose flat buffer is the rows concatenated in input order and whose row(i)
\* is the i-th input row.
C5_RowsRoundTrip ==
    /\ res.op = "MatBuf::from_rows" =>
           /\ res.kind = "ok"
           /\ IsMatrixOfRows(res.out, res.args.rows, res.args.N)
           /\ m = Some(res.out)
    /\ (res.op = "MatBuf::from_rows_non_empty" /\ Len(res.args.rows) >= 1
          /\ SameWidths(res.args.rows)) =>
           /\ res.kind = "ok"
           /\ IsSome(res.out)
           /\ IsMatrixOfRows(Unwrap(res.out), res.args.rows, Len(res.args.rows[1]))
           /\ m = res.out

C5_Witness ==
    /\ res.op = "MatBuf::from_rows"
    /\ res.args.rows = << <<1, 2, 3>>, <<4, 5, 6>> >>
    /\ IsSome(m)
    /\ Unwrap(m).values = <<1, 2, 3, 4, 5, 6>>

\* C6: from_rows_non_empty on an empty input returns Ok(None): neither an
\* error nor a matrix.
C6_EmptyInputIsNone ==
    (res.op = "MatBuf::from_rows_non_empty" /\ Len(res.args.rows) = 0) =>
        (res.kind = "ok" /\ res.out = None /\ m = None)

C6_Witness ==
    /\ res.op = "MatBuf::from_rows_non_empty"
    /\ Len(res.args.rows) = 0
    /\ res.kind = "ok"

\* C7: from_rows_non_empty returns an error, and no matrix, whenever a row's
\* length differs from the first row's, wherever that row stands and whether
\* it is shorter, longer or empty.
C7_MismatchedRowIsErr ==
    (res.op = "MatBuf::from_rows_non_empty" /\ ~SameWidths(res.args.rows)) =>
        (res.kind = "err" /\ m = None)

C7_Witness ==
    /\ res.op = "MatBuf::from_rows_non_empty"
    /\ res.kind = "err"
    /\ Len(res.args.rows) = 3
    /\ Len(res.args.rows[2]) = 0
    /\ Len(res.args.rows[1]) = 2
    /\ Len(res.args.rows[3]) = 2

FromFlat == {"MatBuf::from_vec", "Mat::from_slice"}

ShapeMismatch(args) == Len(args.values) # args.nrow * args.ncol

\* C8: from_vec and from_slice produce no matrix when values.len() differs
\* from nrow * ncol: the call fails; when the two are equal they return the
\* matrix of exactly the given values, nrow, ncol and layout.
C8_FromFlatChecksShape ==
    res.op \in FromFlat =>
        IF ShapeMismatch(res.args)
        THEN res.kind # "ok" /\ m = None /\ view = None
        ELSE /\ res.kind = "ok"
             /\ res.out = [values |-> res.args.values, nrow |-> res.args.nrow,
                           ncol |-> res.args.ncol, layout |-> res.args.layout]
             /\ IF res.op = "MatBuf::from_vec" THEN m = Some(res.out) ELSE view = Some(res.out)

C8_Witness ==
    /\ res.op = "MatBuf::from_vec"
    /\ res.kind = "panic"
    /\ Len(res.args.values) = 6
    /\ res.args.nrow = 2 /\ res.args.ncol = 2

\* C9 as stated: a shape mismatch at from_vec or from_slice reaches the caller
\* as an error value, not as an abort.
C9_MismatchIsErrValue ==
    (res.op \in FromFlat /\ ShapeMismatch(res.args)) => res.kind = "err"

\* C9, amended: a shape mismatch at from_vec or from_slice is a panic at the
\* caller; neither call ever returns an error value.
C9_MismatchPanics ==
    res.op \in FromFlat =>
        /\ res.kind # "err"
        /\ ShapeMismatch(res.args) => res.kind = "panic"

C9_Witness ==
    /\ res.op = "Mat::from_slice"
    /\ res.kind = "panic"
    /\ Len(res.args.values) < res.args.nrow * res.args.ncol

\* a slice lent by a row or column accessor holds `len` elements, and its
\* j-th is the element that indexing [RowOf(j), ColOf(j)] addresses
SliceIsLine(mb, slice, len, RowOf(_), ColOf(_)) ==
    /\ Len(slice.vals) = len
    /\ \A j \in { x \in 0 .. MaxLen : x < len } :
           LET e == MatBuf_index(mb, RowOf(j), ColOf(j))
           IN  /\ e.kind = "ok"
               /\ slice.start + j = e.out.at

\* C10: on an owning row-major matrix row(i) and row_mut(i), i < nrow, give
\* exactly ncol elements, the j-th being the element [i, j]; on an owning
\* column-major matrix col(j) and col_mut(j), j < ncol, give exactly nrow
\* elements, the i-th being the element [i, j]; an out-of-range index panics.
C10_RowAndColSlices ==
    /\ res.op = "MatBuf::row" =>
           LET mb == Unwrap(m)
               i == res.args.row
           IN  IF i < mb.nrow
               THEN /\ res.kind = "ok"
                    /\ SliceIsLine(mb, res.out, mb.ncol, LAMBDA j : i, LAMBDA j : j)
                    /\ \A j \in { x \in Cols : x < mb.ncol } :
                           res.out.vals[j + 1] = MatBuf_index(mb, i, j).out.val
               ELSE res.kind = "panic"
    /\ res.op = "MatBuf::row_mut" =>
           LET mb == Unwrap(m)
               i == res.args.row
           IN  IF i < mb.nrow
               THEN /\ IsSome(res.out)
                    /\ SliceIsLine(mb, Unwrap(res.out), mb.ncol, LAMBDA j : i, LAMBDA j : j)
                    /\ res.kind = "ok" =>
                           MatBuf_index(mb, i, res.args.j).out.val = res.args.value
               ELSE res.kind = "panic" /\ res.out = None
    /\ res.op = "MatBuf::col" =>
           LET mb == Unwrap(m)
               j == res.args.col
           IN  IF j < mb.ncol
               THEN /\ res.kind = "ok"
                    /\ SliceIsLine(mb, res.out, mb.nrow, LAMBDA i : i, LAMBDA i : j)
                    /\ \A i \in { x \in Rows : x < mb.nrow } :
                           res.out.vals[i + 1] = MatBuf_index(mb, i, j).out.val
               ELSE res.kind = "panic"
    /\ res.op = "MatBuf::col_mut" =>
           LET mb == Unwrap(m)
               j == res.args.col
           IN  IF j < mb.ncol
               THEN /\ IsSome(res.out)
                    /\ SliceIsLine(mb, Unwrap(res.out), mb.nrow, LAMBDA i : i, LAMBDA i : j)
                    /\ res.kind = "ok" =>
                           MatBuf_index(mb, res.args.i, j).out.val = res.args.value
               ELSE res.kind = "panic" /\ res.out = None

C10_Witness ==
    /\ IsSome(m)
    /\ res.op = "MatBuf::col" /\ res.kind = "ok"
    /\ Unwrap(m).nrow = 2 /\ Unwrap(m).ncol = 3
    /\ res.args.col = 2
    /\ res.out.vals = <<5, 6>>

\* ---------------------------------------------------------- frame actions
\* m.as_slice()
AsSlice ==
    /\ IsSome(m)
    /\ res' = Result("MatBuf::as_slice", << >>, Ok(MatBuf_as_slice(Unwrap(m))))
    /\ UNCHANGED <<m, view, vptr, written, ffi>>

\* m.map(f).map(g): res.out holds both matrices returned
Map ==
    /\ IsSome(m)
    /\ \E f \in MapFns, g \in MapFns :
           LET once == MatBuf_map(Unwrap(m), f)
           IN  res' = Result("MatBuf::map", [f |-> f, g |-> g],
                             Ok([once |-> once, twice |-> MatBuf_map(once, g)]))
    /\ UNCHANGED <<m, view, vptr, written, ffi>>

\* One run on a matrix of pairwise distinct elements: calls that take m by
\* shared reference, in any number and order, and then one store through a
\* mutable accessor, which ends the run.
NextFrame ==
    \/ FromVecDistinct
    \/ ~written /\ AsMat
    \/ ~written /\ AsSlice
    \/ ~written /\ Map
    \/ ~written /\ Index
    \/ ~written /\ Row
    \/ ~written /\ Col
    \/ ~written /\ BufRows
    \/ ~written /\ BufCols
    \/ IndexMut
    \/ RowMut
    \/ ColMut
    \/ AsMutSlice

SpecFrame == Init /\ [][NextFrame]_vars

\* C17: new(nrow, ncol) yields, for every nrow and ncol, zero included, a
\* matrix that reports that nrow and ncol, whose buffer has nrow*ncol
\* elements, each the element type's default value (0), in the default
\* layout of the layout type: row-major for RowMajor, column-major for
\* ColMajor and for MatLayouts.
C17_NewIsZeroedInDefaultLayout ==
    res.op = "MatBuf::new" =>
        /\ res.kind = "ok"
        /\ m = Some(res.out)
        /\ res.out.nrow = res.args.nrow
        /\ res.out.ncol = res.args.ncol
        /\ Len(res.out.values) = res.args.nrow * res.args.ncol
        /\ \A k \in 1 .. Len(res.out.values) : res.out.values[k] = 0
        /\ res.out.layout.type = res.args.type
        /\ layout(res.out.layout)
               = IF res.args.type = "RowMajor" THEN "RowMajor" ELSE "ColMajor"

\* new(2, 3) with the layout a MatLayouts value: six zeros, column-major
C17_Witness ==
    /\ res.op = "MatBuf::new"
    /\ res.args = [nrow |-> 2, ncol |-> 3, type |-> "MatLayouts"]
    /\ Unwrap(m).values = <<0, 0, 0, 0, 0, 0>>
    /\ Unwrap(m).layout = [type |-> "MatLayouts", variant |-> "ColMajor"]

\* ------------------------------------------------- claims on the frame
\* C14: map(f) returns a new owning matrix with the nrow, ncol and layout of
\* the source whose element at every [r, c] is f of the source's element at
\* [r, c]; mapping the result again with g gives g(f(..)) at every [r, c], so
\* map(x -> 2x) twice gives the matrix that map(x -> 4x) gives.
C14_MapAppliesElementwise ==
    res.op = "MatBuf::map" =>
        LET mb == Unwrap(m)
            once == res.out.once
            twice == res.out.twice
            f == res.args.f
            g == res.args.g
        IN  /\ once.nrow = mb.nrow /\ once.ncol = mb.ncol /\ once.layout = mb.layout
            /\ twice.nrow = mb.nrow /\ twice.ncol = mb.ncol /\ twice.layout = mb.layout
            /\ Len(once.values) = mb.nrow * mb.ncol
            /\ Len(twice.values) = mb.nrow * mb.ncol
            /\ \A r \in { x \in Rows : x < mb.nrow }, c \in { x \in Cols : x < mb.ncol } :
                   LET e == MatBuf_index(mb, r, c).out.val
                   IN  /\ MatBuf_index(once, r, c).kind = "ok"
                       /\ MatBuf_index(once, r, c).out.val = Apply(f, e)
                       /\ MatBuf_index(twice, r, c).kind = "ok"
                       /\ MatBuf_index(twice, r, c).out.val = Apply(g, Apply(f, e))
            /\ (f = "double" /\ g = "double") =>
                   twice = [mb EXCEPT !.values = [k \in 1 .. Len(mb.values) |-> 4 * mb.values[k]]]

\* a 2 x 3 matrix doubled twice
C14_Witness ==
    /\ res.op = "MatBuf::map"
    /\ res.args.f = "double" /\ res.args.g = "double"
    /\ Unwrap(m).nrow = 2 /\ Unwrap(m).ncol = 3
    /\ Unwrap(m).values = <<1, 2, 3, 4, 5, 6>>
    /\ res.out.once.values = <<2, 4, 6, 8, 10, 12>>
    /\ res.out.twice.values = <<4, 8, 12, 16, 20, 24>>

\* the calls that take the matrix by shared reference
ReadOps ==
    { "MatBuf::index", "MatBuf::row", "MatBuf::col", "MatBuf::rows", "MatBuf::cols",
      "MatBuf::as_slice", "MatBuf::as_mat", "MatBuf::map" }

WholeView == IsSome(m) /\ view = Some(MatBuf_as_mat(Unwrap(m)))

\* C11: a view slices as the buffer it borrows: on a row-major matrix the
\* view's row(i), i < nrow, is the owning matrix's row(i), and on a
\* column-major matrix the view's col(j), j < ncol, is the owning matrix's
\* col(j): the same length and the same elements, each the element that the
\* view's own [row, col] indexing gives.
C11_ViewSlicesAsOwner ==
    WholeView =>
        /\ (res.op = "Mat::row" /\ res.args.row < Unwrap(m).nrow) =>
               LET own == MatBuf_row(Unwrap(m), res.args.row)
               IN  /\ own.kind = "ok"
                   /\ res.kind = "ok"
                   /\ res.out = own.out
                   /\ \A j \in { x \in Cols : x < Unwrap(m).ncol } :
                          res.out.vals[j + 1]
                              = Mat_index(Unwrap(view), res.args.row, j).out.val
        /\ (res.op = "Mat::col" /\ res.args.col < Unwrap(m).ncol) =>
               LET own == MatBuf_col(Unwrap(m), res.args.col)
               IN  /\ own.kind = "ok"
                   /\ res.kind = "ok"
                   /\ res.out = own.out
                   /\ \A i \in { x \in Rows : x < Unwrap(m).nrow } :
                          res.out.vals[i + 1]
                              = Mat_index(Unwrap(view), i, res.args.col).out.val

\* the matrix that the last rows / cols call was made on, and where its
\* slice starts in m's buffer
SourceOf ==
    IF res.op \in {"Mat::rows", "Mat::cols"} THEN res.args.of
    ELSE MatBuf_as_mat(Unwrap(m))
SourcePtr == IF res.op \in {"Mat::rows", "Mat::cols"} THEN res.args.ptr ELSE 0

\* the range a .. b
IsHalfOpen(value) == value.start.kind = "Included" /\ value.end.kind = "Excluded"

\* the view holds the elements of m's buffer from offset vptr on
BorrowsFromM ==
    LET v == Unwrap(view)
    IN  /\ vptr + Len(v.values) <= Len(Unwrap(m).values)
        /\ v.values = SubSeq(Unwrap(m).values, vptr + 1, vptr + Len(v.values))

\* C12: rows(a..b) on a row-major matrix, a <= b <= nrow, returns a view of
\* b-a rows with the same ncol and layout whose row(k) is the original's
\* row(a+k); cols(a..b) on a column-major matrix, a <= b <= ncol, returns a
\* view of b-a columns with the same nrow and layout whose element [i, k] is
\* the original's [i, a+k]; the view's values are the original's from offset
\* a*ncol (a*nrow) on, in place in the buffer.
C12_SubRangeViews ==
    /\ (res.op \in {"Mat::rows", "MatBuf::rows"} /\ IsHalfOpen(res.args.range)) =>
           LET src == SourceOf
               a == res.args.range.start.v
               b == res.args.range.end.v
           IN  (a <= b /\ b <= src.nrow) =>
                   /\ res.kind = "ok"
                   /\ res.out.mat.nrow = b - a
                   /\ res.out.mat.ncol = src.ncol
                   /\ res.out.mat.layout = src.layout
                   /\ \A k \in { x \in Rows : x < b - a } :
                          /\ Mat_row(res.out.mat, k).kind = "ok"
                          /\ Mat_row(res.out.mat, k).out.vals = Mat_row(src, a + k).out.vals
                   /\ res.out.mat.values = SubSeq(src.values, a * src.ncol + 1, b * src.ncol)
                   /\ view = Some(res.out.mat)
                   /\ vptr = SourcePtr + a * src.ncol
                   /\ BorrowsFromM
    /\ (res.op \in {"Mat::cols", "MatBuf::cols"} /\ IsHalfOpen(res.args.range)) =>
           LET src == SourceOf
               a == res.args.range.start.v
               b == res.args.range.end.v
           IN  (a <= b /\ b <= src.ncol) =>
                   /\ res.kind = "ok"
                   /\ res.out.mat.ncol = b - a
                   /\ res.out.mat.nrow = src.nrow
                   /\ res.out.mat.layout = src.layout
                   /\ \A i \in { x \in Rows : x < src.nrow }, k \in { x \in Cols : x < b - a } :
                          /\ Mat_index(res.out.mat, i, k).kind = "ok"
                          /\ Mat_index(res.out.mat, i, k).out.val
                                 = Mat_index(src, i, a + k).out.val
                   /\ res.out.mat.values = SubSeq(src.values, a * src.nrow + 1, b * src.nrow)
                   /\ view = Some(res.out.mat)
                   /\ vptr = SourcePtr + a * src.nrow
                   /\ BorrowsFromM

\* rows(1..b) of a view two columns wide or more returned a view of at least
\* one row
C12_Witness ==
    /\ res.op = "Mat::rows"
    /\ res.kind = "ok"
    /\ IsHalfOpen(res.args.range)
    /\ res.args.range.start.v = 1
    /\ res.out.mat.nrow >= 1
    /\ res.out.mat.ncol >= 2

\* the half-open range [start, end) that a range value designates on an
\* axis of the given extent
RangeStart(value) ==
    CASE value.start.kind = "Included"  -> value.start.v
      [] value.start.kind = "Excluded"  -> value.start.v + 1
      [] value.start.kind = "Unbounded" -> 0
RangeEnd(value, extent) ==
    CASE value.end.kind = "Included"  -> value.end.v + 1
      [] value.end.kind = "Excluded"  -> value.end.v
      [] value.end.kind = "Unbounded" -> extent

\* C13: rows(range) and cols(range) normalise the bounds to the half-open
\* [start, end) (unbounded start 0, unbounded end the extent, inclusive end
\* end+1, exclusive start start+1); the call fails and produces no view
\* whenever start > end or end > extent, and every range with
\* start <= end <= extent, the empty one included, is accepted and gives
\* the view of end-start rows (columns) from start on.
C13_RangeNormalisedAndChecked ==
    res.op \in {"Mat::rows", "MatBuf::rows", "Mat::cols", "MatBuf::cols"} =>
        LET src == SourceOf
            byRows == res.op \in {"Mat::rows", "MatBuf::rows"}
            extent == IF byRows THEN src.nrow ELSE src.ncol
            stride == IF byRows THEN src.ncol ELSE src.nrow
            start == RangeStart(res.args.range)
            end == RangeEnd(res.args.range, extent)
        IN  IF start <= end /\ end <= extent
            THEN /\ res.kind = "ok"
                 /\ (IF byRows THEN res.out.mat.nrow ELSE res.out.mat.ncol) = end - start
                 /\ res.out.start = start * stride
                 /\ view = Some(res.out.mat)
            ELSE /\ res.kind = "panic"
                 /\ view = IF res.op \in {"Mat::rows", "Mat::cols"} THEN Some(src) ELSE None

\* the offset, from the buffer start handed over, at which a reader told
\* nrow, ncol and the layout flag finds the element [r, c]
FlaggedOffset(call, r, c) ==
    IF call.is_row_major = 1 THEN r * call.ncol + c ELSE c * call.nrow + r

\* C16: the layout flag Dataset::from_mat hands the engine is 1 exactly
\* when the view's layout is row-major and 0 exactly when it is
\* column-major, for views of the whole matrix and for sub-range views, and
\* the buffer start handed over is where the view's element [0, 0] lies in
\* the owner's buffer: reading nrow*ncol elements from there under the
\* flagged layout gives the view's element [r, c] for every r and c.
C16_FlagAndStartDescribeTheView ==
    (res.op = "Dataset::from_mat" /\ IsSome(res.out.call)) =>
        LET v == Unwrap(view)
            call == Unwrap(res.out.call)
            buffer == Unwrap(m).values
        IN  /\ call.is_row_major \in {0, 1}
            /\ call.is_row_major = 1 <=> layout(v.layout) = "RowMajor"
            /\ call.is_row_major = 0 <=> layout(v.layout) = "ColMajor"
            /\ call.data + call.nrow * call.ncol <= Len(buffer)
            /\ \A r \in { x \in Rows : x < v.nrow }, c \in { x \in Cols : x < v.ncol } :
                   buffer[call.data + FlaggedOffset(call, r, c) + 1]
                       = Mat_index(v, r, c).out.val

\* the columns 1..3 of a column-major 2 x 3 matrix handed over: the flag is
\* 0 and the start is the third element of the buffer
C16_Witness ==
    /\ res.op = "Dataset::from_mat"
    /\ IsSome(res.out.call)
    /\ Unwrap(m).nrow = 2 /\ Unwrap(m).ncol = 3
    /\ Unwrap(view).nrow = 2 /\ Unwrap(view).ncol = 2
    /\ Unwrap(view).layout = ColMajor
    /\ Unwrap(res.out.call).is_row_major = 0
    /\ Unwrap(res.out.call).data = 2

\* the matrix of the other layout with the logical contents of v
OtherLayout(L) ==
    [type |-> IF L.type = "MatLayouts" THEN "MatLayouts"
              ELSE IF L.type = "RowMajor" THEN "ColMajor" ELSE "RowMajor",
     variant |-> IF layout(L) = "RowMajor" THEN "ColMajor" ELSE "RowMajor"]
Relaid(v) ==
    LET other == OtherLayout(v.layout)
        RowAt(k) == IF layout(other) = "RowMajor" THEN k \div v.ncol ELSE k % v.nrow
        ColAt(k) == IF layout(other) = "RowMajor" THEN k % v.ncol ELSE k \div v.nrow
    IN  MakeMat([k \in 1 .. Len(v.values) |->
                    Mat_index(v, RowAt(k - 1), ColAt(k - 1)).out.val],
                v.nrow, v.ncol, other)

\* C18: the Debug rendering of a matrix has one line per row in 0..nrow and
\* one column per col in 0..ncol and shows at (row, col) the logical element
\* [row, col]; the matrix of the other layout with the same logical contents
\* renders identically.
C18_DebugShowsLogicalGrid ==
    res.op \in {"Mat::fmt", "MatBuf::fmt"} =>
        LET v == IF res.op = "Mat::fmt" THEN Unwrap(view) ELSE MatBuf_as_mat(Unwrap(m))
            w == Relaid(v)
        IN  /\ Len(res.out.rows) = v.nrow
            /\ Len(res.out.header) = v.ncol
            /\ \A c \in { x \in Cols : x < v.ncol } : res.out.header[c + 1] = c
            /\ \A r \in { x \in Rows : x < v.nrow } :
                   /\ Len(res.out.rows[r + 1]) = v.ncol
                   /\ \A c \in { x \in Cols : x < v.ncol } :
                          res.out.rows[r + 1][c + 1] = ToString(Mat_index(v, r, c).out.val)
            /\ layout(w.layout) # layout(v.layout)
            /\ \A r \in { x \in Rows : x < v.nrow }, c \in { x \in Cols : x < v.ncol } :
                   Mat_index(w, r, c).out.val = Mat_index(v, r, c).out.val
            /\ (v.nrow > 1 /\ v.ncol > 1) => w.values # v.values
            /\ Mat_fmt(w) = res.out

\* a column-major 2 x 3 view over the buffer 1..6 rendered: the first line
\* is 1 3 5, the second 2 4 6
C18_Witness ==
    /\ res.op = "Mat::fmt"
    /\ Unwrap(view).layout = ColMajor
    /\ Unwrap(view).values = <<1, 2, 3, 4, 5, 6>>
    /\ Unwrap(view).nrow = 2
    /\ res.out.rows = << <<"1", "3", "5">>, <<"2", "4", "6">> >>

\* ---------------------------------------------- claims on the datasets
\* C19: Dataset::from_mat hands the engine the matrix's nrow as the number
\* of data rows and its ncol as the number of columns, for either layout,
\* and the dataset it returns reports get_num_data = nrow and
\* get_num_feature = ncol.
C19_FromMatHandsRowsAndColumns ==
    res.op = "Dataset::from_mat" =>
        LET v == Unwrap(view)
        IN  /\ IsSome(res.out.call) =>
                   /\ Unwrap(res.out.call).nrow = v.nrow
                   /\ Unwrap(res.out.call).ncol = v.ncol
            /\ res.kind = "ok" =>
                   /\ IsSome(res.out.call)
                   /\ IsSome(res.out.dataset)
                   /\ Dataset_get_num_data(Unwrap(res.out.dataset)) = v.nrow
                   /\ Dataset_get_num_feature(Unwrap(res.out.dataset)) = v.ncol

\* a dataset made of the whole of a row-major 2 x 3 matrix: 2 data and 3
\* features
C19_Witness ==
    /\ res.op = "Dataset::from_mat"
    /\ res.kind = "ok"
    /\ WholeView
    /\ Unwrap(view).layout = RowMajor
    /\ Unwrap(view).nrow = 2 /\ Unwrap(view).ncol = 3
    /\ Unwrap(res.out.dataset) = [num_data |-> 2, num_feature |-> 3]

\* the matrices of a list share ncol and layout
SameShapeAndLayout(mats) ==
    \A i \in 1 .. Len(mats) :
        /\ mats[i].ncol = mats[1].ncol
        /\ layout(mats[i].layout) = layout(mats[1].layout)

RECURSIVE TotalRows(_)
TotalRows(mats) == IF mats = << >> THEN 0 ELSE Head(mats).nrow + TotalRows(Tail(mats))

\* C20: Dataset::from_mats on a non-empty list of matrices that share ncol
\* and layout hands the engine the number of matrices and, in list order,
\* each matrix's buffer and each matrix's row count, with the common ncol;
\* the dataset it returns reports get_num_data = the sum of the matrices'
\* nrow and get_num_feature = the common ncol.
C20_FromMatsHandsEachMatrixInOrder ==
    res.op = "Dataset::from_mats" =>
        LET mats == res.args.mats
        IN  /\ res.kind = "ok" => (mats # << >> /\ SameShapeAndLayout(mats))
            /\ (mats # << >> /\ SameShapeAndLayout(mats)) =>
                   /\ IsSome(res.out.call) <=> res.args.parameters = << >>
                   /\ IsSome(res.out.call) =>
                          LET call == Unwrap(res.out.call)
                          IN  /\ call.nmat = Len(mats)
                              /\ Len(call.nrows) = Len(mats)
                              /\ Len(call.mat_ptrs) = Len(mats)
                              /\ \A i \in 1 .. Len(mats) :
                                     /\ call.nrows[i] = mats[i].nrow
                                     /\ call.mat_ptrs[i] = i
                              /\ call.ncol = mats[1].ncol
                              /\ call.is_row_major = 1
                                     <=> layout(mats[1].layout) = "RowMajor"
                   /\ res.kind = "ok" =>
                          LET dataset == Unwrap(res.out.dataset)
                          IN  /\ Dataset_get_num_data(dataset) = TotalRows(mats)
                              /\ Dataset_get_num_feature(dataset) = mats[1].ncol

\* 2 rows and then 3 rows of width 3: 5 data and 3 features
C20_Witness ==
    /\ res.op = "Dataset::from_mats"
    /\ res.kind = "ok"
    /\ Len(res.args.mats) = 2
    /\ res.args.mats[1].nrow = 2 /\ res.args.mats[2].nrow = 3
    /\ res.args.mats[1].ncol = 3
    /\ Unwrap(res.out.call).nrows = <<2, 3>>
    /\ Unwrap(res.out.dataset) = [num_data |-> 5, num_feature |-> 3]

\* C25: Dataset::from_mats returns an error, and neither calls the engine
\* nor has a dataset, when the list of matrices is empty, when a matrix's
\* ncol differs from the first matrix's ncol, and when a matrix's layout
\* differs from the first matrix's layout.
C25_FromMatsRejectsBeforeTheEngine ==
    res.op = "Dataset::from_mats" =>
        LET mats == res.args.mats
        IN  (\/ mats = << >>
             \/ \E i \in 1 .. Len(mats) : mats[i].ncol # mats[1].ncol
             \/ \E i \in 1 .. Len(mats) : layout(mats[i].layout) # layout(mats[1].layout))
            => /\ res.kind = "err"
               /\ res.out.call = None
               /\ res.out.dataset = None

\* one of the three rejections: a column-major matrix after a row-major
\* one of the same shape, the parameters valid
\* (the empty list and the narrower matrix are rejected by the same action)
C25_Witness ==
    /\ res.op = "Dataset::from_mats"
    /\ res.kind = "err"
    /\ res.args.parameters = << >>
    /\ Len(res.args.mats) = 2
    /\ res.args.mats[1].nrow = res.args.mats[2].nrow
    /\ res.args.mats[1].ncol = res.args.mats[2].ncol
    /\ layout(res.args.mats[1].layout) = "RowMajor"
    /\ layout(res.args.mats[2].layout) = "ColMajor"

\* ------------------------------------------------------------- strings
\* A string is the sequence of its bytes, a C string the bytes up to its
\* first NUL. The names tried are at most MaxName bytes over NameBytes.
NUL == 0
MaxName == 2
MaxNames == 2
NameBytes == {0, 1, 2}

RECURSIVE SeqsUpTo(_, _)
SeqsUpTo(S, n) ==
    IF n = 0 THEN { << >> }
    ELSE LET shorter == SeqsUpTo(S, n - 1)
         IN  shorter \cup { Append(s, x) : s \in { t \in shorter : Len(t) = n - 1 }, x \in S }

NameInputs == SeqsUpTo(NameBytes, MaxName)
NameLists == SeqsUpTo(NameInputs, MaxNames)

Min(a, b) == IF a <= b THEN a ELSE b
Max(a, b) == IF a >= b THEN a ELSE b
Zeros(n) == [i \in 1 .. n |-> 0]

\* CString::as_ptr: the bytes of the string and the NUL that ends them
CString_as_ptr(cstring) == Append(cstring, NUL)

\* chars.iter().position(|&x| x == 0), the offset of the first NUL
position(chars) ==
    IF \E i \in 1 .. Len(chars) : chars[i] = NUL
    THEN Some((CHOOSE i \in 1 .. Len(chars) :
                   chars[i] = NUL /\ \A j \in 1 .. i - 1 : chars[j] # NUL) - 1)
    ELSE None

\* chars_to_string keeping the NUL and what follows it
chars_to_string_whole(chars) == Ok(chars)

\* chars_to_string: the bytes before the first NUL (the bytes tried are
\* ASCII, so from_utf8 succeeds)
chars_to_string(chars) ==
    LET index == position(chars)
    IN  Ok(IF IsSome(index) THEN SubSeq(chars, 1, Unwrap(index)) ELSE chars)

\* What the engine reads at a const char*: the bytes before the first NUL.
c_str(chars) == SubSeq(chars, 1, Unwrap(position(chars)))

\* The engine's LGBM_DatasetSetFeatureNames, returning `code`: with code 0
\* the dataset keeps the num_feature_names C strings it read. It fails when
\* their number is not the dataset's number of features.
LGBM_DatasetSetFeatureNames(dataset, feature_names, num_feature_names, code) ==
    LET code_out == IF num_feature_names # dataset.num_feature THEN -1 ELSE code
    IN  [code |-> code_out,
         dataset |-> IF code_out = 0
                     THEN [dataset EXCEPT !.feature_names =
                               [i \in 1 .. num_feature_names |-> c_str(feature_names[i])]]
                     ELSE dataset]

\* The longest of the strings, with its NUL
RECURSIVE MaxSize(_)
MaxSize(strs) == IF strs = << >> THEN 0 ELSE Max(Len(Head(strs)) + 1, MaxSize(Tail(strs)))

\* The engine's LGBM_DatasetGetFeatureNames, LGBM_BoosterGetFeatureNames and
\* LGBM_BoosterGetEvalNames over the strings strs that the handle holds,
\* returning `code`: it reports their number and the buffer length the
\* longest needs, and copies into each of the first len buffers as much of
\* a string and its NUL as buffer_len has room for.
LGBM_GetNames(strs, len, buffer_len, out_strs, code) ==
    [code |-> code,
     out_len |-> Len(strs),
     out_buffer_len |-> MaxSize(strs),
     out_strs |-> [i \in 1 .. Len(out_strs) |->
                      IF i <= Min(len, Len(strs))
                      THEN LET src == CString_as_ptr(strs[i])
                               n == Min(Len(src), buffer_len)
                           IN  SubSeq(src, 1, n) \o SubSeq(out_strs[i], n + 1, Len(out_strs[i]))
                      ELSE out_strs[i]]]

\* a call of the getter: the capacity it was given and what it reported
Called(len, buffer_len, r) ==
    [len |-> len, buffer_len |-> buffer_len, code |-> r.code,
     out_len |-> r.out_len, out_buffer_len |-> r.out_buffer_len]

\* what get_strings ends with: the calls it made of the getter, and the
\* strings it returns
Strings(kind, calls, strings) == [kind |-> kind, out |-> [calls |-> calls, strings |-> strings]]

\* get_strings giving the second call buffers one byte shorter than asked
get_strings_short_buffers(strs, codes) ==
    LET first == LGBM_GetNames(strs, 0, 0, << >>, codes[1])
        call1 == Called(0, 0, first)
    IN  IF to_result(first.code).kind = "err" THEN Strings("err", <<call1>>, << >>)
        ELSE LET len == first.out_len
                 buffer_len == first.out_buffer_len
                 buffers == [i \in 1 .. len |-> Zeros(buffer_len - 1)]
                 second == LGBM_GetNames(strs, len, buffer_len - 1, buffers, codes[2])
                 call2 == Called(len, buffer_len - 1, second)
             IN  IF to_result(second.code).kind = "err"
                 THEN Strings("err", <<call1, call2>>, << >>)
                 ELSE Strings("ok", <<call1, call2>>,
                              [i \in 1 .. len |-> chars_to_string(second.out_strs[i]).out])

\* get_strings over the getter of a handle that holds the strings strs,
\* codes the return codes of the getter's first and second call. The
\* truncate of line 54 shortens out_strs, the vector of pointers, which is
\* not read again: the strings returned are those of all the buffers.
get_strings(strs, codes) ==
    LET first == LGBM_GetNames(strs, 0, 0, << >>, codes[1])
        call1 == Called(0, 0, first)
    IN  IF to_result(first.code).kind = "err" THEN Strings("err", <<call1>>, << >>)
        ELSE LET len == first.out_len
                 buffer_len == first.out_buffer_len
                 buffers == [i \in 1 .. len |-> Zeros(buffer_len)]
                 second == LGBM_GetNames(strs, len, buffer_len, buffers, codes[2])
                 call2 == Called(len, buffer_len, second)
             IN  IF to_result(second.code).kind = "err"
                 THEN Strings("err", <<call1, call2>>, << >>)
                 ELSE Strings("ok", <<call1, call2>>,
                              [i \in 1 .. len |-> chars_to_string(second.out_strs[i]).out])

\* the names of to_cstring, up to the first that holds a NUL
RECURSIVE to_cstrings(_)
to_cstrings(names) ==
    IF names = << >> THEN Ok(<< >>)
    ELSE LET cstring == to_cstring(Head(names))
             rest == to_cstrings(Tail(names))
         IN  IF cstring.kind = "err" \/ rest.kind = "err" THEN Err
             ELSE Ok(<<cstring.out>> \o rest.out)

\* set_feature_names handing the engine the names in the reverse order
Dataset_set_feature_names_reversed(dataset, names, code) ==
    LET cstr_names == to_cstrings(names)
        num == try_into_i32(Len(names))
    IN  IF cstr_names.kind = "err" \/ num.kind = "err"
        THEN [kind |-> "err", out |-> dataset]
        ELSE LET pcstr_names == [i \in 1 .. Len(names) |->
                                     CString_as_ptr(cstr_names.out[Len(names) + 1 - i])]
                 r == LGBM_DatasetSetFeatureNames(dataset, pcstr_names, num.out, code)
             IN  [kind |-> to_result(r.code).kind, out |-> r.dataset]

\* Dataset::set_feature_names on the handle of the engine's `dataset`: the
\* outcome and the engine's dataset afterwards
Dataset_set_feature_names(dataset, names, code) ==
    LET cstr_names == to_cstrings(names)
        num == try_into_i32(Len(names))
    IN  IF cstr_names.kind = "err" \/ num.kind = "err"
        THEN [kind |-> "err", out |-> dataset]
        ELSE LET pcstr_names == [i \in 1 .. Len(names) |-> CString_as_ptr(cstr_names.out[i])]
                 r == LGBM_DatasetSetFeatureNames(dataset, pcstr_names, num.out, code)
             IN  [kind |-> to_result(r.code).kind, out |-> r.dataset]

\* Dataset::get_feature_names
Dataset_get_feature_names(dataset, codes) == get_strings(dataset.feature_names, codes)

\* ------------------------------------------------- handles and owners
\* A DatasetHandle is the number of the dataset in native.datasets, a
\* Dataset the wrapper of one; the run has at most one Booster. It makes
\* at most MaxDatasets datasets, holds at most MaxArcs clones of one outside
\* the booster and adds at most as many validation data to the booster.
MaxDatasets == 2
MaxArcs == 2

dataset_handle(id) == <<"dataset", id>>
booster_handle == <<"booster", 1>>

Range(s) == { s[i] : i \in DOMAIN s }
Count(s, x) == Cardinality({ i \in DOMAIN s : s[i] = x })

\* Arc::strong_count of the dataset: the clones held outside the booster
\* and those in the booster's data
held_by_booster(id) == IF IsSome(booster) THEN Count(Unwrap(booster).data, Some(id)) ELSE 0
strong_count(id) == arcs[id] + held_by_booster(id)

\* the datasets somebody holds
Held == { id \in DOMAIN arcs : strong_count(id) > 0 }

\* what the drops of a call end with: the handles freed so far, the panics
\* of the call so far, and whether a panic while unwinding aborted
Dropped(freed, panics, aborted) == [freed |-> freed, panics |-> panics, aborted |-> aborted]

\* Drop for Dataset: LGBM_DatasetFree(self.0), its return code unwrapped.
\* `failing` are the handles whose free returns non-zero.
Dataset_drop(id, d, failing) ==
    LET panics == d.panics + (IF dataset_handle(id) \in failing THEN 1 ELSE 0)
    IN  Dropped(Append(d.freed, dataset_handle(id)), panics, panics >= 2)

\* Drop of the Arc<Dataset>s `data`, one after the other: each takes one
\* from its dataset's strong count, and the one that takes the last drops
\* the Dataset. counts are the strong counts before.
RECURSIVE drop_arcs(_, _, _, _)
drop_arcs(data, counts, d, failing) ==
    IF data = << >> \/ d.aborted THEN d
    ELSE IF Head(data) = None THEN drop_arcs(Tail(data), counts, d, failing)
    ELSE LET id == Unwrap(Head(data))
             after == [counts EXCEPT ![id] = @ - 1]
         IN  drop_arcs(Tail(data), after,
                       IF after[id] = 0 THEN Dataset_drop(id, d, failing) ELSE d,
                       failing)

\* Drop for Booster freeing the datasets of data before the booster
Booster_drop_data_first(b, counts, freed, failing) ==
    LET d == drop_arcs(b.data, counts, Dropped(freed, 0, FALSE), failing)
        panics == d.panics + (IF b.handle \in failing THEN 1 ELSE 0)
    IN  IF d.aborted THEN d
        ELSE Dropped(Append(d.freed, b.handle), panics, panics >= 2)

\* Drop for Booster: LGBM_BoosterFree(self.handle), its return code
\* unwrapped, and then the drop of the field data, which runs whether the
\* unwrap panicked or not
Booster_drop(b, counts, freed, failing) ==
    LET own == Dropped(Append(freed, b.handle),
                       IF b.handle \in failing THEN 1 ELSE 0, FALSE)
    IN  drop_arcs(b.data, counts, own, failing)

\* how a call ends that dropped something: a panic of an unwrap, or an
\* abort, comes before the call's own outcome
AfterDrops(kind, d) ==
    IF d.aborted THEN "abort" ELSE IF d.panics > 0 THEN "panic" ELSE kind

\* Booster::from_handle
Booster_from_handle(handle, train_data) == [handle |-> handle, data |-> <<train_data>>]

\* Booster::data
Booster_data(b, data_idx) ==
    IF data_idx < Len(b.data) THEN b.data[data_idx + 1] ELSE None

\* ------------------------------------------------ actions on datasets
\* the run goes on until a panic during a panic aborts the process
Running == res.kind # "abort"

\* The names of the columns of a dataset that was given none: the engine's
\* Column_0, Column_1, ..., here the one byte i for the i-th.
default_feature_names(ncol) == [i \in 1 .. ncol |-> <<i>>]

\* what the engine keeps for the handle that LGBM_DatasetCreateFromMat gave
Created(handle) ==
    [num_data |-> handle.num_data, num_feature |-> handle.num_feature,
     feature_names |-> default_feature_names(handle.num_feature)]

\* Arc::new(Dataset::from_mat(&mat, None, &parameters)?) of a matrix with
\* nrow rows and ncol columns: the dataset's handle is the next number
ArcNew(nrow, ncol, code) ==
    LET mat == MatBuf_as_mat(MakeMat(Ramp(nrow * ncol), nrow, ncol, RowMajor))
        r == Dataset_from_mat(mat, 0, << >>, code)
    IN  /\ res' = Result("Dataset::from_mat",
                         [mat |-> mat, ptr |-> 0, parameters |-> << >>], r)
        /\ IF r.kind = "ok"
           THEN /\ arcs' = Append(arcs, 1)
                /\ native' = [native EXCEPT
                                  !.datasets = Append(@, Created(Unwrap(r.out.dataset)))]
           ELSE UNCHANGED <<arcs, native>>
        /\ UNCHANGED <<others, booster>>

\* the one dataset of a run that is about its feature names
FirstDataset ==
    /\ arcs = << >>
    /\ \E ncol \in 1 .. MaxNames, code \in EngineCodes : ArcNew(MaxRow, ncol, code)

\* d.set_feature_names(names), d the only owner of its dataset. A run sets
\* the names of a dataset that still has the engine's own, and not twice in
\* a row.
SetFeatureNames ==
    /\ Running
    /\ res.op # "Dataset::set_feature_names"
    /\ \E id \in Held, names \in NameLists, code \in EngineCodes :
           LET dataset == native.datasets[id]
               r == Dataset_set_feature_names(dataset, names, code)
           IN  /\ strong_count(id) = 1
               /\ dataset.feature_names = default_feature_names(dataset.num_feature)
               /\ res' = [op |-> "Dataset::set_feature_names", kind |-> r.kind,
                          args |-> [dataset |-> id, names |-> names], out |-> << >>]
               /\ native' = [native EXCEPT !.datasets[id] = r.out]
    /\ UNCHANGED <<others, booster, arcs>>

\* d.get_feature_names()
GetFeatureNames ==
    /\ Running
    /\ \E id \in Held, codes \in EngineCodes \X EngineCodes :
           res' = Result("Dataset::get_feature_names", [dataset |-> id],
                         Dataset_get_feature_names(native.datasets[id], codes))
    /\ UNCHANGED <<others, ffi>>

\* The feature names of one dataset.
NextStrings ==
    \/ FirstDataset
    \/ SetFeatureNames
    \/ GetFeatureNames

SpecStrings == Init /\ [][NextStrings]_vars

\* ---------------------------------------------- claims on the strings
\* C21: when get_feature_names follows a set_feature_names(names) that
\* succeeded on the same dataset and succeeds itself, it returns names: as
\* many strings, in the same order, each with the same bytes; and each
\* string it returns is what the engine holds up to its first NUL.
C21_FeatureNamesRoundTrip ==
    [][ (/\ res.op = "Dataset::set_feature_names" /\ res.kind = "ok"
         /\ res'.op = "Dataset::get_feature_names" /\ res'.kind = "ok"
         /\ res'.args.dataset = res.args.dataset)
        => /\ Len(res'.out.strings) = Len(res.args.names)
           /\ \A i \in 1 .. Len(res.args.names) :
                  /\ res'.out.strings[i] = res.args.names[i]
                  /\ \A k \in 1 .. Len(res'.out.strings[i]) : res'.out.strings[i][k] # NUL ]_vars

\* two names of different lengths read back after they were set
C21_Witness ==
    /\ res.op = "Dataset::get_feature_names"
    /\ res.kind = "ok"
    /\ res.out.strings = <<<<1, 2>>, <<2>>>>
    /\ native.datasets[res.args.dataset].feature_names = <<<<1, 2>>, <<2>>>>

\* C30: a get_strings that succeeds has called the getter exactly twice,
\* first with no capacity (no buffers, of no length), then with as many
\* buffers as the first call counted, each of the length the first call
\* asked for; it returns as many strings as the second call reported in
\* out_len, each as long as the string the engine holds.
C30_GetStringsCallsTwice ==
    (res.op = "Dataset::get_feature_names" /\ res.kind = "ok") =>
        LET calls == res.out.calls
            held == native.datasets[res.args.dataset].feature_names
        IN  /\ Len(calls) = 2
            /\ calls[1].len = 0 /\ calls[1].buffer_len = 0
            /\ calls[2].len = calls[1].out_len
            /\ calls[2].buffer_len = calls[1].out_buffer_len
            /\ Len(res.out.strings) = calls[2].out_len
            /\ \A i \in 1 .. Len(res.out.strings) :
                   /\ Len(res.out.strings[i]) = Len(held[i])
                   /\ Len(res.out.strings[i]) < calls[2].out_buffer_len

\* two strings, the longer of two bytes and read into buffers of three
C30_Witness ==
    /\ res.op = "Dataset::get_feature_names"
    /\ res.kind = "ok"
    /\ Len(res.out.calls) = 2
    /\ res.out.calls[2].len = 2
    /\ res.out.calls[2].buffer_len = 3
    /\ Len(res.out.strings) = 2
    /\ Len(res.out.strings[2]) = 2

\* ------------------------------------------------ actions on the owners
\* The handles of the run, and the strong counts of its datasets. The
\* handles whose free fails are chosen among those a call can free.
Handles == {booster_handle} \cup { dataset_handle(id) : id \in DOMAIN arcs }
Counts == [id \in DOMAIN arcs |-> strong_count(id)]
NothingDropped == Dropped(native.freed, 0, FALSE)

\* The model behind a BoosterHandle: what the engine reports of it, and the
\* datasets it numbers by data_idx, the training data 0 and the validation
\* data from 1 on. A booster made of a dataset has the dataset's features
\* and no iteration yet.
Model(num_feature, num_class, num_iteration, train_data) ==
    [num_feature |-> num_feature, num_class |-> num_class,
     num_iteration |-> num_iteration, train_data |-> train_data, valid_datas |-> << >>]

\* The engine's LGBM_BoosterCreate, returning `code`
LGBM_BoosterCreate(train_handle, train, num_class, code) ==
    [code |-> code,
     handle |-> IF code = 0
                THEN Some(Model(train.num_feature, num_class, 0, Some(train_handle)))
                ELSE None]

\* what a call about the booster ends with: its outcome, the handles it
\* handed to the engine and its value
Called_with(kind, uses, value) == [kind |-> kind, out |-> [uses |-> uses, value |-> value]]

\* Booster::new before the booster is made: the engine's return code, the
\* handle it was called with, and the model if there is one
Booster_new(train_handle, train, parameters, num_class, code) ==
    LET cstring == to_cstring(parameters)
    IN  IF cstring.kind = "err" THEN Called_with("err", {}, None)
        ELSE LET r == LGBM_BoosterCreate(train_handle, train, num_class, code)
             IN  Called_with(to_result(r.code).kind, {train_handle}, r.handle)

\* Booster::new(train_data, &parameters), train_data one of the clones held
\* outside: it moves into the booster, or is dropped when new returns Err
BoosterNewOf(num_classes) ==
    /\ Running
    /\ booster = None /\ native.model = None
    /\ \E id \in DOMAIN arcs, parameters \in ParamInputs, num_class \in num_classes,
          code \in EngineCodes :
       \E failing \in SUBSET {dataset_handle(id)} :
           LET r == Booster_new(dataset_handle(id), native.datasets[id], parameters,
                                num_class, code)
               d == IF r.kind = "ok" THEN NothingDropped
                    ELSE drop_arcs(<<Some(id)>>, Counts, NothingDropped, failing)
           IN  /\ arcs[id] > 0
               /\ arcs' = [arcs EXCEPT ![id] = @ - 1]
               /\ booster' = IF r.kind = "ok"
                             THEN Some(Booster_from_handle(booster_handle, Some(id)))
                             ELSE None
               /\ native' = [native EXCEPT !.model = r.out.value, !.freed = d.freed]
               /\ res' = [op |-> "Booster::new", kind |-> AfterDrops(r.kind, d),
                          args |-> [train_data |-> id, parameters |-> parameters],
                          out |-> r.out]
    /\ UNCHANGED others

\* The engine's LGBM_BoosterCreateFromModelfile and
\* LGBM_BoosterLoadModelFromString, returning `code`: the model is the one
\* that was saved, and has no training data.
LGBM_BoosterCreateFromModelfile(saved, code) ==
    [code |-> code, handle |-> IF code = 0 THEN Some(saved) ELSE None]

\* Booster::from_file and Booster::from_string before the booster is made
Booster_from_file(saved, code) ==
    LET r == LGBM_BoosterCreateFromModelfile(saved, code)
    IN  Called_with(to_result(r.code).kind, {}, r.handle)

\* Booster::from_file(filename) and Booster::from_string(model), the file
\* or string a model saved with one of num_classes classes after
\* MaxIter iterations
MaxIter == 2
BoosterFromFileOf(num_classes) ==
    /\ Running
    /\ booster = None /\ native.model = None
    /\ \E op \in {"Booster::from_file", "Booster::from_string"},
          num_class \in num_classes, code \in EngineCodes :
           LET saved == Model(MaxCol, num_class, MaxIter, None)
               r == Booster_from_file(saved, code)
           IN  /\ booster' = IF r.kind = "ok"
                             THEN Some(Booster_from_handle(booster_handle, None))
                             ELSE None
               /\ native' = [native EXCEPT !.model = r.out.value]
               /\ res' = [op |-> op, kind |-> r.kind, args |-> [saved |-> saved],
                          out |-> r.out]
    /\ UNCHANGED <<others, arcs>>

\* The engine's LGBM_BoosterAddValidData, returning `code`
LGBM_BoosterAddValidData(model, valid_data, code) ==
    [code |-> code,
     model |-> IF code = 0
               THEN [model EXCEPT !.valid_datas = Append(@, valid_data)]
               ELSE model]

\* add_valid_data pushing the dataset whatever the engine returned
Booster_add_valid_data_always(b, model, id, code) ==
    LET r == LGBM_BoosterAddValidData(model, dataset_handle(id), code)
    IN  [kind |-> to_result(r.code).kind,
         out |-> [uses |-> {b.handle, dataset_handle(id)}, value |-> None],
         booster |-> [b EXCEPT !.data = Append(@, Some(id))],
         model |-> r.model]

\* Booster::add_valid_data: the outcome, the booster and the engine's model
\* afterwards
Booster_add_valid_data(b, model, id, code) ==
    LET r == LGBM_BoosterAddValidData(model, dataset_handle(id), code)
    IN  [kind |-> to_result(r.code).kind,
         out |-> [uses |-> {b.handle, dataset_handle(id)}, value |-> None],
         booster |-> IF r.code = 0 THEN [b EXCEPT !.data = Append(@, Some(id))] ELSE b,
         model |-> r.model]

\* b.add_valid_data(dataset), dataset one of the clones held outside: it
\* moves into the booster's data, or is dropped when the call returns Err
AddValidData ==
    /\ Running
    /\ IsSome(booster)
    /\ Len(Unwrap(booster).data) <= MaxArcs
    /\ \E id \in DOMAIN arcs, code \in EngineCodes :
       \E failing \in SUBSET {dataset_handle(id)} :
           LET r == Booster_add_valid_data(Unwrap(booster), Unwrap(native.model), id, code)
               d == IF r.kind = "ok" THEN NothingDropped
                    ELSE drop_arcs(<<Some(id)>>, Counts, NothingDropped, failing)
           IN  /\ arcs[id] > 0
               /\ arcs' = [arcs EXCEPT ![id] = @ - 1]
               /\ booster' = Some(r.booster)
               /\ native' = [native EXCEPT !.model = Some(r.model), !.freed = d.freed]
               /\ res' = [op |-> "Booster::add_valid_data", kind |-> AfterDrops(r.kind, d),
                          args |-> [dataset |-> id, code |-> code], out |-> r.out]
    /\ UNCHANGED others

\* the handles that the drops of a call freed
Freed_by(d) == { d.freed[i] : i \in Len(native.freed) + 1 .. Len(d.freed) }

\* drop(b)
BoosterDrop ==
    /\ Running
    /\ IsSome(booster)
    /\ \E failing \in SUBSET Handles :
           LET d == Booster_drop(Unwrap(booster), Counts, native.freed, failing)
           IN  /\ booster' = None
               /\ native' = [native EXCEPT !.freed = d.freed]
               /\ res' = [op |-> "Booster::drop", kind |-> AfterDrops("ok", d),
                          args |-> << >>,
                          out |-> [uses |-> Freed_by(d), value |-> None]]
    /\ UNCHANGED <<others, arcs>>

\* Arc::clone of a dataset somebody holds
ArcClone ==
    /\ Running
    /\ \E id \in Held :
           /\ arcs[id] < MaxArcs
           /\ arcs' = [arcs EXCEPT ![id] = @ + 1]
           /\ res' = [op |-> "Arc::clone", kind |-> "ok", args |-> [dataset |-> id],
                      out |-> [uses |-> {}, value |-> None]]
    /\ UNCHANGED <<others, booster, native>>

\* drop of one of the clones held outside the booster
ArcDrop ==
    /\ Running
    /\ \E id \in DOMAIN arcs :
       \E failing \in SUBSET {dataset_handle(id)} :
           LET d == drop_arcs(<<Some(id)>>, Counts, NothingDropped, failing)
           IN  /\ arcs[id] > 0
               /\ arcs' = [arcs EXCEPT ![id] = @ - 1]
               /\ native' = [native EXCEPT !.freed = d.freed]
               /\ res' = [op |-> "Arc::drop", kind |-> AfterDrops("ok", d),
                          args |-> [dataset |-> id],
                          out |-> [uses |-> Freed_by(d), value |-> None]]
    /\ UNCHANGED <<others, booster>>

\* b.data(data_idx)
Data ==
    /\ Running
    /\ IsSome(booster)
    /\ \E data_idx \in 0 .. MaxArcs + 1 :
           res' = [op |-> "Booster::data", kind |-> "ok", args |-> [data_idx |-> data_idx],
                   out |-> [uses |-> {}, value |-> Booster_data(Unwrap(booster), data_idx)]]
    /\ UNCHANGED <<others, ffi>>

\* one more dataset, of a matrix of MaxCol columns and one of nrows rows
NewDatasetOf(nrows) ==
    /\ Running
    /\ Len(arcs) < MaxDatasets
    /\ \E nrow \in nrows, code \in EngineCodes : ArcNew(nrow, MaxCol, code)

\* the datasets of a run that is about the owners are of one shape
NewDataset == NewDatasetOf({MaxRow})

\* a booster of one class
BoosterNew == BoosterNewOf({1})
BoosterFromFile == BoosterFromFileOf({1})

\* The owners of the handles: the booster and the clones of its datasets,
\* made and dropped in any order.
NextOwners ==
    \/ NewDataset
    \/ ArcClone
    \/ ArcDrop
    \/ BoosterNew
    \/ BoosterFromFile
    \/ AddValidData
    \/ Data
    \/ BoosterDrop

SpecOwners == Init /\ [][NextOwners]_vars

\* ----------------------------------------------- claims on the owners
\* the handles a call handed to the engine
UsedBy(r) == IF r.op = "Dataset::from_mat" THEN {} ELSE r.out.uses

\* the place of a handle in the order of the frees
FreedAt(freed, h) == { i \in DOMAIN freed : freed[i] = h }

\* C22: in whatever order the booster and the other holders of its
\* datasets are dropped, no call hands the engine a handle that was freed
\* before the call, so that no handle is freed twice; a dataset that the
\* booster holds in its data, the one it was created with or one it took
\* by add_valid_data, is freed only after the booster's handle was; and as
\* long as the process was not aborted by a panic during a panic, a handle
\* has been freed exactly when its last owner is gone.
C22_BoosterFreedBeforeItsDatasets ==
    [][ LET before == native.freed
            freed == native'.freed
        IN  /\ \A h \in UsedBy(res') : FreedAt(before, h) = {}
            /\ \A h \in Range(freed) : Cardinality(FreedAt(freed, h)) = 1
            /\ \A id \in DOMAIN arcs :
                   (held_by_booster(id) > 0 /\ FreedAt(freed, dataset_handle(id)) # {}) =>
                       \E i \in FreedAt(freed, booster_handle) :
                           \A j \in FreedAt(freed, dataset_handle(id)) : i < j
            /\ res'.kind # "abort" =>
                   /\ \A id \in DOMAIN arcs' :
                          (strong_count(id)' = 0) <=> FreedAt(freed, dataset_handle(id)) # {}
                   /\ (booster' = None /\ native'.model # None)
                          <=> FreedAt(freed, booster_handle) # {} ]_vars

\* the drop of a booster that held the last clones of its training data
\* and of a validation data: the booster freed, then the two datasets
C22_Witness ==
    /\ res.op = "Booster::drop"
    /\ res.kind = "ok"
    /\ native.freed = <<booster_handle, dataset_handle(1), dataset_handle(2)>>

\* the booster's data and the engine's numbering agree: data_idx 0 the
\* training data if there is one, data_idx i the i-th validation data
Aligned(b, model) ==
    /\ Len(b.data) = 1 + Len(model.valid_datas)
    /\ IF model.train_data = None THEN b.data[1] = None
       ELSE /\ IsSome(b.data[1])
            /\ dataset_handle(Unwrap(b.data[1])) = Unwrap(model.train_data)
    /\ \A i \in 1 .. Len(model.valid_datas) :
           /\ IsSome(b.data[i + 1])
           /\ dataset_handle(Unwrap(b.data[i + 1])) = model.valid_datas[i]

\* C23: after any sequence of add_valid_data calls, failed or not, the
\* booster's data agrees with the engine's data_idx numbering. data(0) is
\* the training dataset, absent for a booster of a file or a string;
\* data(i) is the i-th dataset added with success for 1 <= i <= k and
\* absent for i > k; an add_valid_data that succeeds appends its dataset
\* and one that fails leaves the list as it was.
C23_DataAlignedWithEngine ==
    [][ /\ IsSome(booster') => Aligned(Unwrap(booster'), Unwrap(native'.model))
        /\ res'.op = "Booster::new" /\ res'.kind = "ok" =>
               Unwrap(booster').data = <<Some(res'.args.train_data)>>
        /\ res'.op \in {"Booster::from_file", "Booster::from_string"} /\ res'.kind = "ok" =>
               Unwrap(booster').data = <<None>>
        /\ res'.op = "Booster::add_valid_data" =>
               Unwrap(booster').data =
                   IF res'.args.code = 0
                   THEN Append(Unwrap(booster).data, Some(res'.args.dataset))
                   ELSE Unwrap(booster).data
        /\ res'.op = "Booster::data" =>
               LET i == res'.args.data_idx
                   model == Unwrap(native.model)
                   k == Len(model.valid_datas)
               IN  /\ i = 0 => (res'.out.value = None <=> model.train_data = None)
                   /\ (1 <= i /\ i <= k) =>
                          /\ IsSome(res'.out.value)
                          /\ dataset_handle(Unwrap(res'.out.value)) = model.valid_datas[i]
                   /\ i > k => res'.out.value = None ]_vars

\* a booster of a file that took two validation data: no data(0), and
\* data(2) the second one
C23_Witness ==
    /\ res.op = "Booster::data"
    /\ res.args.data_idx = 2
    /\ IsSome(booster)
    /\ Unwrap(booster).data = <<None, Some(2), Some(1)>>
    /\ res.out.value = Some(1)

\* --------------------------------------------------------- predictions
\* A Prediction is its shape num = [num_data, num_class, num_2] and its
\* values. NaN is the value of an element nothing was written to; the
\* engine's values are numbered from 1.
NaN == 0
MaxClass == 2

\* Prediction::new
Prediction_new(num_data, num_class, num_2) ==
    [num |-> <<num_data, num_class, num_2>>,
     values |-> [i \in 1 .. num_data * num_class * num_2 |-> NaN]]

\* from_num_predict taking any num_predict for a whole number of num_2
Prediction_from_num_predict_unchecked(num_predict, num_data, num_class) ==
    IF num_data * num_class = 0 THEN Ok(Prediction_new(num_data, num_class, 1))
    ELSE Ok(Prediction_new(num_data, num_class, (num_predict \div num_class) \div num_data))

\* Prediction::from_num_predict
Prediction_from_num_predict(num_predict, num_data, num_class) ==
    IF num_data * num_class = 0 THEN Ok(Prediction_new(num_data, num_class, 1))
    ELSE LET num_2 == (num_predict \div num_class) \div num_data
         IN  IF num_data * num_class * num_2 # num_predict THEN Err
             ELSE Ok(Prediction_new(num_data, num_class, num_2))

\* Prediction::num_data and Prediction::num_class
Prediction_num_data(p) == p.num[1]
Prediction_num_class(p) == p.num[2]

\* Index<usize> for Prediction
Prediction_index_1(p, data) ==
    IF Prediction_num_class(p) # 1 THEN Panic
    ELSE IF p.num[3] # 1 THEN Panic
    ELSE SliceAt(p.values, data)

\* Index<[usize; 2]> for Prediction
Prediction_index_2(p, data, class) ==
    IF p.num[3] # 1 THEN Panic
    ELSE SliceAt(p.values, data * Prediction_num_class(p) + class)

\* Index<[usize; 3]> for Prediction
Prediction_index_3(p, data, class, iteration) ==
    SliceAt(p.values, data * Prediction_num_class(p) * p.num[3] + class * p.num[3] + iteration)

\* What the engine writes to out_result, the values of a prediction: the
\* k-th of them the number k.
Written(p) == [p EXCEPT !.values = Ramp(Len(p.values))]

\* Prediction::from_num_predict(num_predict, num_data, num_class) and, of
\* the Prediction it returns, the values written as get_predict and
\* predict_for_mat have the engine write them
FromNumPredict ==
    /\ prediction = None
    /\ res.op = "init"
    /\ \E num_predict \in 0 .. MaxRow * MaxClass * MaxIter + 1,
          num_data \in 0 .. MaxRow, num_class \in 0 .. MaxClass :
           LET r == Prediction_from_num_predict(num_predict, num_data, num_class)
           IN  /\ res' = Result("Prediction::from_num_predict",
                                [num_predict |-> num_predict, num_data |-> num_data,
                                 num_class |-> num_class], r)
               /\ prediction' = IF r.kind = "ok" THEN Some(Written(r.out)) ELSE None
    /\ UNCHANGED <<m, view, vptr, written, booster, arcs, native>>

\* prediction[data]
PredictionIndex1 ==
    /\ IsSome(prediction)
    /\ \E data \in 0 .. MaxRow * MaxClass :
           res' = Result("Prediction::index_1", [data |-> data],
                         Prediction_index_1(Unwrap(prediction), data))
    /\ UNCHANGED <<m, view, vptr, written, ffi>>

\* prediction[[data, class]]
PredictionIndex2 ==
    /\ IsSome(prediction)
    /\ \E data \in 0 .. MaxRow, class \in 0 .. MaxClass :
           res' = Result("Prediction::index_2", [data |-> data, class |-> class],
                         Prediction_index_2(Unwrap(prediction), data, class))
    /\ UNCHANGED <<m, view, vptr, written, ffi>>

\* prediction[[data, class, iteration]]
PredictionIndex3 ==
    /\ IsSome(prediction)
    /\ \E data \in 0 .. MaxRow, class \in 0 .. MaxClass, iteration \in 0 .. MaxIter :
           res' = Result("Prediction::index_3",
                         [data |-> data, class |-> class, iteration |-> iteration],
                         Prediction_index_3(Unwrap(prediction), data, class, iteration))
    /\ UNCHANGED <<m, view, vptr, written, ffi>>

\* One prediction and the reads of it.
NextPrediction ==
    \/ FromNumPredict
    \/ PredictionIndex1
    \/ PredictionIndex2
    \/ PredictionIndex3

SpecPrediction == Init /\ [][NextPrediction]_vars

\* ------------------------------------------ claims on the predictions
\* C26 as claimed: every Prediction that from_num_predict(num_predict,
\* num_data, num_class) returns has num_data * num_class * num_2 values for
\* its shape [num_data, num_class, num_2]; when num_data * num_class is not
\* 0 that number is num_predict; and when num_predict is not a multiple of
\* num_data * num_class the call returns an error.
C26_Original ==
    res.op = "Prediction::from_num_predict" =>
        LET a == res.args
            product == a.num_data * a.num_class
        IN  /\ res.kind = "ok" =>
                   /\ res.out.num[1] = a.num_data /\ res.out.num[2] = a.num_class
                   /\ Len(res.out.values) = product * res.out.num[3]
                   /\ product # 0 => Len(res.out.values) = a.num_predict
            /\ (~ \E k \in 0 .. a.num_predict : k * product = a.num_predict)
                   => res.kind = "err"

\* C26: every Prediction that from_num_predict(num_predict, num_data,
\* num_class) returns has num_data * num_class * num_2 values for its shape
\* [num_data, num_class, num_2]; when num_data * num_class is not 0 that
\* number is num_predict, and the call returns an error when num_predict is
\* not a multiple of num_data * num_class; when num_data * num_class is 0
\* the call returns the empty Prediction of shape [num_data, num_class, 1]
\* for every num_predict, a multiple or not.
C26_LengthMatchesShape ==
    res.op = "Prediction::from_num_predict" =>
        LET a == res.args
            product == a.num_data * a.num_class
        IN  /\ res.kind = "ok" =>
                   /\ res.out.num[1] = a.num_data /\ res.out.num[2] = a.num_class
                   /\ Len(res.out.values) = product * res.out.num[3]
                   /\ product # 0 => Len(res.out.values) = a.num_predict
            /\ (product # 0 /\ ~ \E k \in 0 .. a.num_predict : k * product = a.num_predict)
                   => res.kind = "err"
            /\ product = 0 =>
                   /\ res.kind = "ok"
                   /\ res.out.num[3] = 1
                   /\ res.out.values = << >>

\* three predictions for no data of two classes: the empty Prediction
C26_Witness ==
    /\ res.op = "Prediction::from_num_predict"
    /\ res.kind = "ok"
    /\ res.args.num_predict = 3
    /\ res.args.num_data = 0
    /\ res.out.num = <<0, 2, 1>>
    /\ res.out.values = << >>

\* the offset of a coordinate in the values of a prediction
OffsetOf(p, data, class, iteration) ==
    data * p.num[2] * p.num[3] + class * p.num[3] + iteration

\* C27: prediction[[data, class]] and prediction[[data, class, iteration]]
\* return the value at the offset data * num_class * num_2 + class * num_2
\* + iteration when every coordinate is within its extent, and fail when
\* data >= num_data, class >= num_class or iteration >= num_2, rather than
\* return the value of another coordinate. The two-coordinate form is read
\* with iteration 0 on a prediction whose num_2 is 1.
C27_IndexChecksEachCoordinate ==
    res.op \in {"Prediction::index_2", "Prediction::index_3"} =>
        LET p == Unwrap(prediction)
            data == res.args.data
            class == res.args.class
            iteration == IF res.op = "Prediction::index_3" THEN res.args.iteration ELSE 0
            within == data < p.num[1] /\ class < p.num[2] /\ iteration < p.num[3]
        IN  /\ (within /\ (res.op = "Prediction::index_2" => p.num[3] = 1)) =>
                   /\ res.kind = "ok"
                   /\ res.out = p.values[OffsetOf(p, data, class, iteration) + 1]
            /\ ~within => res.kind = "panic"

\* --------------------------------------------------- calls of a booster
\* A call of the engine is a record of its function f and of what it was
\* given; `failing` is the function that returns non-zero in a call of the
\* wrapper, "none" for none.
Code(f, failing) == IF f = failing THEN -1 ELSE 0

\* what a call of the wrapper ends with: its outcome, the calls of the
\* engine it made, in their order, and its value
Ended(kind, calls, value) == [kind |-> kind, out |-> [calls |-> calls, value |-> value]]

PredictTypes == {"Normal", "RawScore", "LeafIndex", "Contrib"}

\* The engine's number of predictions for one row: one for each class, for
\* LeafIndex one for each class and iteration, for Contrib one for each
\* class and feature and one more.
num_pred_in_one_row(model, predict_type) ==
    model.num_class * (CASE predict_type = "LeafIndex" -> model.num_iteration
                         [] predict_type = "Contrib" -> model.num_feature + 1
                         [] OTHER -> 1)

\* The engine's LGBM_BoosterCalcNumPredict and the out_len of its
\* LGBM_BoosterPredictForMat
LGBM_BoosterCalcNumPredict(model, num_row, predict_type) ==
    num_row * num_pred_in_one_row(model, predict_type)

\* predict_for_mat from the call of get_num_classes on, the number of
\* features being num_feature
predict_for_mat_checked(model, mat, ptr, predict_type, parameters, failing, calls) ==
    LET num_row == mat.nrow
        classes == Append(calls, [f |-> "LGBM_BoosterGetNumClasses"])
        num_class == model.num_class
        num_row32 == try_into_i32(num_row)
        num_predict == LGBM_BoosterCalcNumPredict(model, num_row, predict_type)
        calc == Append(classes, [f |-> "LGBM_BoosterCalcNumPredict", num_row |-> num_row,
                                 predict_type |-> predict_type, out_len |-> num_predict])
        out_result == Prediction_from_num_predict(num_predict, num_row, num_class)
        ncol32 == try_into_i32(mat.ncol)
        cstring == to_cstring(parameters)
    IN  IF Code("LGBM_BoosterGetNumClasses", failing) # 0 THEN Ended("err", classes, None)
        ELSE IF num_row32.kind = "err" THEN Ended("err", classes, None)
        ELSE IF Code("LGBM_BoosterCalcNumPredict", failing) # 0 THEN Ended("err", calc, None)
        ELSE IF out_result.kind = "err" THEN Ended("err", calc, None)
        ELSE IF ncol32.kind = "err" \/ cstring.kind = "err" THEN Ended("err", calc, None)
        ELSE LET out_len == LGBM_BoosterCalcNumPredict(model, num_row32.out, predict_type)
                 predict == Append(calc, [f |-> "LGBM_BoosterPredictForMat",
                                          data |-> Mat_as_data_ptr(mat, ptr),
                                          nrow |-> num_row32.out, ncol |-> ncol32.out,
                                          is_row_major |-> Mat_is_row_major(mat),
                                          predict_type |-> predict_type,
                                          parameters |-> cstring.out,
                                          out_result |-> Len(out_result.out.values)])
             IN  IF Code("LGBM_BoosterPredictForMat", failing) # 0
                 THEN Ended("err", predict, None)
                 ELSE IF out_len # Len(out_result.out.values) THEN Ended("panic", predict, None)
                 ELSE Ended("ok", predict, Some(Written(out_result.out)))

\* predict_for_mat with a matrix of any width
Booster_predict_for_mat_any_width(model, mat, ptr, predict_type, parameters, failing) ==
    LET calls == <<[f |-> "LGBM_BoosterGetNumFeature"]>>
    IN  IF Code("LGBM_BoosterGetNumFeature", failing) # 0 THEN Ended("err", calls, None)
        ELSE predict_for_mat_checked(model, mat, ptr, predict_type, parameters, failing, calls)

\* Booster::predict_for_mat(mat, predict_type, 0, None, &parameters) on the
\* booster of the engine's `model`, mat the view that as_mat() gives and
\* ptr where its slice starts
Booster_predict_for_mat(model, mat, ptr, predict_type, parameters, failing) ==
    LET calls == <<[f |-> "LGBM_BoosterGetNumFeature"]>>
        num_feature == model.num_feature
    IN  IF Code("LGBM_BoosterGetNumFeature", failing) # 0 THEN Ended("err", calls, None)
        ELSE IF num_feature # mat.ncol THEN Ended("err", calls, None)
        ELSE predict_for_mat_checked(model, mat, ptr, predict_type, parameters, failing, calls)

\* Booster::get_num_data(data_idx): the calls of the engine it makes and
\* the number of data, or the error
Booster_get_num_data(b, datasets, data_idx, failing) ==
    IF data_idx < Len(b.data) /\ IsSome(b.data[data_idx + 1])
    THEN LET data == datasets[Unwrap(b.data[data_idx + 1])]
             calls == <<[f |-> "LGBM_DatasetGetNumData"]>>
         IN  IF Code("LGBM_DatasetGetNumData", failing) # 0 THEN Ended("err", calls, None)
             ELSE Ended("ok", calls, Dataset_get_num_data(data))
    ELSE Ended("err", << >>, None)

\* update_one_iter_custom with grad and hess of any length
Booster_update_one_iter_custom_unchecked(b, model, datasets, grad, hess, failing) ==
    LET classes == <<[f |-> "LGBM_BoosterGetNumClasses"]>>
        num_data == Booster_get_num_data(b, datasets, 0, failing)
        counted == classes \o num_data.out.calls
        update == Append(counted, [f |-> "LGBM_BoosterUpdateOneIterCustom",
                                   grad |-> grad, hess |-> hess])
    IN  IF Code("LGBM_BoosterGetNumClasses", failing) # 0 THEN Ended("err", classes, None)
        ELSE IF num_data.kind = "err" THEN Ended("err", counted, None)
        ELSE IF Code("LGBM_BoosterUpdateOneIterCustom", failing) # 0
        THEN Ended("err", update, None)
        ELSE Ended("ok", update, FALSE)

\* Booster::update_one_iter_custom(&grad, &hess), grad and hess the lengths
\* of the two slices
Booster_update_one_iter_custom(b, model, datasets, grad, hess, failing) ==
    LET classes == <<[f |-> "LGBM_BoosterGetNumClasses"]>>
        num_class == model.num_class
        num_data == Booster_get_num_data(b, datasets, 0, failing)
        counted == classes \o num_data.out.calls
        update == Append(counted, [f |-> "LGBM_BoosterUpdateOneIterCustom",
                                   grad |-> grad, hess |-> hess])
    IN  IF Code("LGBM_BoosterGetNumClasses", failing) # 0 THEN Ended("err", classes, None)
        ELSE IF num_data.kind = "err" THEN Ended("err", counted, None)
        ELSE IF grad # num_class * num_data.out.value THEN Ended("panic", counted, None)
        ELSE IF hess # num_class * num_data.out.value THEN Ended("panic", counted, None)
        ELSE IF Code("LGBM_BoosterUpdateOneIterCustom", failing) # 0
        THEN Ended("err", update, None)
        ELSE Ended("ok", update, FALSE)

\* --------------------------------------------------- get_bytes
\* What the engine answers to one call of a getter of bytes: its return
\* code and the length it reports. The text of a length is its bytes, the
\* NUL at its end among them.
MaxText == 2
MaxReplies == 2
Text(len) == IF len = 0 THEN << >> ELSE Ramp(len - 1) \o <<NUL>>
Reply(code, out_len) == [code |-> code, out_len |-> out_len]
Replies == { Reply(code, out_len) : code \in EngineCodes, out_len \in 0 .. MaxText }
Gets == { get \in SeqsUpTo(Replies, MaxReplies) : get # << >> }

\* The engine's LGBM_BoosterSaveModelToString and LGBM_BoosterDumpModel
\* answering `reply` to a call with a buffer of buffer_len bytes: the text
\* is written to out_str when the buffer holds it, and nothing is written
\* otherwise.
LGBM_BoosterSaveModelToString(reply, buffer_len, out_str) ==
    [code |-> reply.code,
     out_len |-> reply.out_len,
     out_str |-> IF reply.code = 0 /\ reply.out_len <= buffer_len
                 THEN Text(reply.out_len) \o SubSeq(out_str, reply.out_len + 1, buffer_len)
                 ELSE out_str]

\* what get_bytes ends with: its outcome, its calls of the getter and the
\* bytes
Bytes(kind, calls, bytes) == [kind |-> kind, out |-> [calls |-> calls, bytes |-> bytes]]

\* the getter's answer to the i-th call: get[i], and the last of get from
\* then on
Answer(get, i) == get[Min(i, Len(get))]

\* the loop of get_bytes going on after a non-zero return code
RECURSIVE get_bytes_ignoring_code(_, _, _)
get_bytes_ignoring_code(get, buffer, calls) ==
    LET r == LGBM_BoosterSaveModelToString(Answer(get, Len(calls) + 1), Len(buffer), buffer)
        called == Append(calls, [buffer_len |-> Len(buffer), code |-> r.code,
                                 out_len |-> r.out_len])
    IN  IF r.out_len <= Len(buffer)
        THEN Bytes("ok", called, SubSeq(r.out_str, 1, r.out_len))
        ELSE get_bytes_ignoring_code(get, r.out_str \o Zeros(r.out_len - Len(buffer)), called)

\* the loop of get_bytes from the buffer it has and the calls it has made
RECURSIVE get_bytes(_, _, _)
get_bytes(get, buffer, calls) ==
    LET r == LGBM_BoosterSaveModelToString(Answer(get, Len(calls) + 1), Len(buffer), buffer)
        called == Append(calls, [buffer_len |-> Len(buffer), code |-> r.code,
                                 out_len |-> r.out_len])
    IN  IF to_result(r.code).kind = "err" THEN Bytes("err", called, << >>)
        ELSE IF r.out_len <= Len(buffer)
        THEN Bytes("ok", called, SubSeq(r.out_str, 1, r.out_len))
        ELSE get_bytes(get, r.out_str \o Zeros(r.out_len - Len(buffer)), called)

\* CString::from_vec_with_nul: the bytes end with their only NUL
from_vec_with_nul(bytes) ==
    IF bytes # << >> /\ position(bytes) = Some(Len(bytes) - 1) THEN Ok(bytes) ELSE Err

\* get_cstring: get_bytes from an empty buffer, then the CString of the
\* bytes; the value is what get_bytes returned
get_cstring(get) ==
    LET r == get_bytes(get, << >>, << >>)
    IN  IF r.kind = "err" THEN Ended("err", r.out.calls, r)
        ELSE Ended(from_vec_with_nul(r.out.bytes).kind, r.out.calls, r)

\* --------------------------------------------------- actions on a booster
\* The booster of a run about its calls: made of the one dataset of the
\* run, of up to MaxRow rows, or loaded; its model of up to MaxClass classes.
TrainingData == arcs = << >> /\ NewDatasetOf(1 .. MaxRow)
BoosterOfData == BoosterNewOf(1 .. MaxClass)
BoosterLoaded == BoosterFromFileOf(1 .. MaxClass)

\* The calls below that fail or only read leave the booster and its model
\* as they were, so they are tried in the states that the making of the
\* booster and the updates of its model end in.
Made ==
    /\ Running
    /\ IsSome(booster) /\ IsSome(native.model)
    /\ \/ res.op \in {"Booster::new", "Booster::from_file", "Booster::from_string"}
       \/ res.op = "Booster::update_one_iter_custom" /\ res.kind = "ok"

\* booster.predict_for_mat(mat, predict_type, 0, None, &parameters)
PredictForMat ==
    /\ Made
    /\ \E type \in {"RowMajor", "ColMajor", "MatLayouts"} :
       \E mat \in MatInputs(type), predict_type \in PredictTypes,
          parameters \in ParamInputs,
          failing \in {"none", "LGBM_BoosterGetNumFeature", "LGBM_BoosterGetNumClasses",
                       "LGBM_BoosterCalcNumPredict", "LGBM_BoosterPredictForMat"} :
           LET r == Booster_predict_for_mat(Unwrap(native.model), mat, 0, predict_type,
                                            parameters, failing)
           IN  res' = [op |-> "Booster::predict_for_mat", kind |-> r.kind,
                       args |-> [mat |-> mat, predict_type |-> predict_type,
                                 parameters |-> parameters, failing |-> failing],
                       out |-> r.out]
    /\ UNCHANGED <<others, booster, arcs, native>>

\* The engine's LGBM_BoosterUpdateOneIterCustom returning 0: the model has
\* one iteration more.
LGBM_BoosterUpdateOneIterCustom(model) == [model EXCEPT !.num_iteration = @ + 1]

\* booster.update_one_iter_custom(&grad, &hess), the slices of up to
\* MaxRow * MaxClass + 1 numbers, while the model has less than MaxIter
\* iterations
UpdateOneIterCustom ==
    /\ Made
    /\ Unwrap(native.model).num_iteration < MaxIter
    /\ \E grad \in 0 .. MaxRow * MaxClass + 1, hess \in 0 .. MaxRow * MaxClass + 1,
          failing \in {"none", "LGBM_BoosterGetNumClasses", "LGBM_DatasetGetNumData",
                       "LGBM_BoosterUpdateOneIterCustom"} :
           LET model == Unwrap(native.model)
               r == Booster_update_one_iter_custom(Unwrap(booster), model, native.datasets,
                                                   grad, hess, failing)
           IN  /\ res' = [op |-> "Booster::update_one_iter_custom", kind |-> r.kind,
                          args |-> [grad |-> grad, hess |-> hess, failing |-> failing],
                          out |-> r.out]
               /\ native' = IF r.kind = "ok"
                            THEN [native EXCEPT
                                      !.model = Some(LGBM_BoosterUpdateOneIterCustom(model))]
                            ELSE native
    /\ UNCHANGED <<others, booster, arcs>>

\* booster.save_model_to_string(0, None, importance_type) and
\* booster.dump_model(0, None, importance_type), the engine answering get
SaveModelToString ==
    /\ Made
    /\ \E op \in {"Booster::save_model_to_string", "Booster::dump_model"}, get \in Gets :
           LET r == get_cstring(get)
           IN  res' = [op |-> op, kind |-> r.kind, args |-> [get |-> get], out |-> r.out]
    /\ UNCHANGED <<others, booster, arcs, native>>

NextBooster ==
    \/ TrainingData
    \/ BoosterOfData
    \/ BoosterLoaded
    \/ PredictForMat
    \/ UpdateOneIterCustom
    \/ SaveModelToString

SpecBooster == Init /\ [][NextBooster]_vars

\* the calls of the engine's function f among calls
CallsOf(calls, f) == { i \in DOMAIN calls : calls[i].f = f }

\* C24: predict_for_mat returns an error, and the engine's
\* LGBM_BoosterPredictForMat is not called, when the matrix's ncol is not
\* the booster's number of features; every call of LGBM_BoosterPredictForMat
\* is given a matrix of as many columns as the booster has features and an
\* output buffer of the length that the call of LGBM_BoosterCalcNumPredict
\* before it gave.
C24_PredictForMatChecksWidth ==
    res.op = "Booster::predict_for_mat" =>
        LET model == Unwrap(native.model)
            calls == res.out.calls
            predicts == CallsOf(calls, "LGBM_BoosterPredictForMat")
        IN  /\ res.args.mat.ncol # model.num_feature
                   => res.kind = "err" /\ predicts = {}
            /\ \A i \in predicts :
                   /\ res.args.mat.ncol = model.num_feature
                   /\ calls[i].ncol = model.num_feature
                   /\ \E j \in CallsOf(calls, "LGBM_BoosterCalcNumPredict") :
                          j < i /\ calls[j].out_len = calls[i].out_result

\* a matrix a column short of the features is turned down, with no engine
\* call failing; and a matrix of the right width reaches the engine
C24_Witness ==
    /\ res.op = "Booster::predict_for_mat"
    /\ res.args.failing = "none"
    /\ res.args.mat.ncol = MaxCol - 1 /\ res.args.mat.nrow = MaxRow
    /\ Unwrap(native.model).num_feature = MaxCol
    /\ res.kind = "err"
    /\ res.out.calls = <<[f |-> "LGBM_BoosterGetNumFeature"]>>

C29_GetBytesNegotiation ==
    res.op \in {"Booster::save_model_to_string", "Booster::dump_model"} =>
        LET calls == res.out.calls
            n == Len(calls)
            get == res.args.get
        IN  /\ n >= 1 /\ n <= Len(get) + 1
            /\ calls[1].buffer_len = 0
            /\ \A i \in 1 .. n - 1 :
                   /\ calls[i].code = 0
                   /\ calls[i].out_len > calls[i].buffer_len
                   /\ calls[i + 1].buffer_len = calls[i].out_len
            /\ calls[n].code # 0 \/ calls[n].out_len <= calls[n].buffer_len
            /\ calls[n].code # 0 => res.kind = "err" /\ res.out.value.kind = "err"
            /\ calls[n].code = 0 =>
                   /\ res.out.value.kind = "ok"
                   /\ Len(res.out.value.out.bytes) = calls[n].out_len
            /\ \A L \in 0 .. MaxText :
                   (\A i \in DOMAIN get : get[i] = Reply(0, L))
                       => /\ n <= 2
                          /\ res.out.value.out.bytes = Text(L)

\* the engine reports MaxText bytes twice: a call with no buffer, then one
\* with a buffer of MaxText bytes
C29_Witness ==
    /\ res.op = "Booster::save_model_to_string"
    /\ res.args.get = <<Reply(0, MaxText), Reply(0, MaxText)>>
    /\ res.kind = "ok"
    /\ Len(res.out.calls) = 2
    /\ res.out.value.out.bytes = Text(MaxText)

====
